---- MODULE Spec2Model ----
(***************************************************************************)
(* r2x-plexos: the property overlay (PLEXOSPropertyValue), its resolution  *)
(* under the ambient context (scenario priority, horizon), the scoped      *)
(* context managers and the time-series attachment of the parser.          *)
(*                                                                         *)
(* Encoding of Python values:                                              *)
(*   None (string field)  -> NoneStr          None (date) -> NoDate        *)
(*   None (id field)      -> NoId             ISO dates   -> 1..4, ordered *)
(*   dict (insertion ordered) -> sequence of [key, row] with unique keys   *)
(*   dict[str,int] | None -> [isNone, map]    tuple | None -> [isNone,..]  *)
(***************************************************************************)
EXTENDS Integers, Sequences, FiniteSets, TLC

VARIABLES
  prop,                 \* the overlay under test (a PLEXOSPropertyValue)
  written,              \* history: the arguments of every write to prop
  rebuilt,              \* the overlay from_records last built from prop's records
  scopes,               \* the open context-manager scopes, innermost last
  entered,              \* history: for each open scope, the ambient values at entry
  left,                 \* history: the scope the last step exited, if it exited one
  scenario_priority,    \* context._current_scenario_priority
  horizon,              \* context._current_horizon
  hashSeed,             \* the process's set iteration order (fixed per run)
  op,                   \* the last operation performed
  ret,                  \* what the last operation returned
  parser,               \* the PLEXOSParser: references, file cache, attached keys, failures
  system,               \* the system's property overlays and attached time series
  calls,                \* counters: component lookups and file parses so far
  inputs,               \* what the parser reads: components, files, datafiles, variables
  pending,              \* the references the running build_time_series pass has yet to try
  passes,               \* how many build_time_series passes have started
  attempt,              \* history: the last attach attempt or call, with its arguments
  tried                 \* history: the attempts of the running pass, each with its error text

vars == <<prop, written, rebuilt, scopes, entered, left, scenario_priority, horizon, hashSeed, op, ret,
          parser, system, calls, inputs, pending, passes, attempt, tried>>
parserVars == <<parser, system, calls, inputs, pending, passes, attempt, tried>>
overlayVars == <<prop, written, rebuilt, scopes, entered, left, scenario_priority, horizon, hashSeed, ret>>
scopeVars == <<scopes, entered, left>>

\* ------------------------------------------------------------------ bounds
\* number of add_entry / add_from_db_rows writes made to the overlay
MaxWrites == 2
\* depth of nested context-manager scopes
MaxDepth == 3
\* number of time-series references registered with the parser
MaxRefs == 2
\* number of build_time_series passes
MaxPasses == 2

\* ------------------------------------------------------------- encodings
NoneStr == "<None>"
NoDate == -1
NoId == -1
\* None as a value (entry.value, a return value)
NoValue == -1
\* "0000-00-00" and "9999-99-99": below and above every ISO date
DateFloor == 0
DateCeil == 99
\* float("inf"): above every priority number
Inf == 1000

\* Python truthiness of an optional string / optional date or id
TruthyStr(s) == s # NoneStr /\ s # ""
TruthyDate(d) == d # NoDate
TruthyId(i) == i # NoId /\ i # 0

\* lexicographic position of the names used ("" sorts first)
StrRank(s) ==
  CASE s = "" -> 0
    [] s = "+" -> 1
    [] s = "=" -> 2
    [] s = "f.csv" -> 3
    [] s = "s1" -> 4
    [] s = "s2" -> 5
    [] s = "t1" -> 6
    [] s = "t2" -> 7
    [] s = "v1" -> 8
    [] s = "x" -> 9
    [] OTHER -> 10

\* x or "" on an optional string
OrEmpty(s) == IF TruthyStr(s) THEN s ELSE ""

\* ---------------------------------------------------- PLEXOSPropertyKey
PLEXOSPropertyKey(scenario, band, timeslice, date_from, date_to, period_type_id, action, variable, text) ==
  [scenario |-> scenario, band |-> band, timeslice |-> timeslice,
   date_from |-> date_from, date_to |-> date_to,
   period_type_id |-> period_type_id, action |-> action,
   variable |-> variable, text |-> text]

\* PLEXOSPropertyKey(scenario=..., band=..., timeslice=...) with the defaults
DimKey(scenario, band, timeslice, date_from, date_to) ==
  PLEXOSPropertyKey(scenario, band, timeslice, date_from, date_to,
                    NoId, NoneStr, NoneStr, NoneStr)

\* keyword arguments of add_entry with their defaults
AddEntryDefaults ==
  [value |-> NoValue, scenario |-> NoneStr, band |-> 1, timeslice |-> NoneStr,
   date_from |-> NoDate, date_to |-> NoDate, period_type_id |-> NoId,
   datafile_name |-> NoneStr, datafile_id |-> NoId, column_name |-> NoneStr,
   variable_name |-> NoneStr, variable_id |-> NoId, action |-> NoneStr,
   units |-> NoneStr, text |-> NoneStr]

\* --------------------------------------------- dict[key, row] (ordered)
Keys(entries) == {entries[i].key : i \in 1..Len(entries)}
HasKey(entries, k) == k \in Keys(entries)
IndexOf(entries, k) == CHOOSE i \in 1..Len(entries) : entries[i].key = k
RowAt(entries, k) == entries[IndexOf(entries, k)].row
\* entries[k] = row: replaces in place, or appends a new key
PutEntry(entries, k, row) ==
  IF HasKey(entries, k)
  THEN [entries EXCEPT ![IndexOf(entries, k)] = [key |-> k, row |-> row]]
  ELSE Append(entries, [key |-> k, row |-> row])

\* -------------------------------------------------- secondary indexes
\* index[index_key].add(key), creating the bucket when absent
AddToIndex(index, index_key, key) ==
  IF index_key \in DOMAIN index
  THEN [index EXCEPT ![index_key] = @ \cup {key}]
  ELSE [x \in DOMAIN index \cup {index_key} |->
          IF x = index_key THEN {key} ELSE index[x]]

EmptyStrIndex == [x \in {} |-> {}]
EmptyIntIndex == [x \in {} |-> {}]
EmptyDateIndex == [x \in {} |-> {}]

EmptyOverlay ==
  [entries |-> <<>>, units |-> NoneStr, action |-> NoneStr,
   by_scenario |-> EmptyStrIndex, by_band |-> EmptyIntIndex,
   by_timeslice |-> EmptyStrIndex, by_date |-> EmptyDateIndex,
   by_variable |-> EmptyStrIndex, by_text |-> EmptyStrIndex]

AddToIndexes(o, key) ==
  [o EXCEPT
     !.by_scenario = IF TruthyStr(key.scenario)
                     THEN AddToIndex(@, key.scenario, key) ELSE @,
     !.by_band = AddToIndex(@, key.band, key),
     !.by_timeslice = IF TruthyStr(key.timeslice)
                      THEN AddToIndex(@, key.timeslice, key) ELSE @,
     !.by_date = IF <<key.date_from, key.date_to>> # <<NoDate, NoDate>>
                 THEN AddToIndex(@, <<key.date_from, key.date_to>>, key) ELSE @,
     !.by_variable = IF TruthyStr(key.variable)
                     THEN AddToIndex(@, key.variable, key) ELSE @,
     !.by_text = IF TruthyStr(key.text)
                 THEN AddToIndex(@, key.text, key) ELSE @]

UpdateMetadata(o, units, action) ==
  [o EXCEPT
     !.units = IF ~TruthyStr(@) /\ TruthyStr(units) THEN units ELSE @,
     !.action = IF ~TruthyStr(@) /\ TruthyStr(action) THEN action ELSE @]

\* (mutant) the key add_entry builds leaves the action out
AddEntryKey_NoAction(a) ==
  PLEXOSPropertyKey(a.scenario, a.band, a.timeslice, a.date_from, a.date_to,
                    a.period_type_id, NoneStr, a.variable_name, a.text)

\* the key add_entry builds from its arguments
AddEntryKey(a) ==
  PLEXOSPropertyKey(a.scenario, a.band, a.timeslice, a.date_from, a.date_to,
                    a.period_type_id, a.action, a.variable_name, a.text)

\* the PLEXOSRow add_entry builds from its arguments
AddEntryRow(a) ==
  [value |-> a.value, scenario_name |-> a.scenario, band |-> a.band,
   timeslice_name |-> a.timeslice, date_from |-> a.date_from,
   date_to |-> a.date_to, datafile_name |-> a.datafile_name,
   datafile_id |-> a.datafile_id, column_name |-> a.column_name,
   variable_name |-> a.variable_name, variable_id |-> a.variable_id,
   action |-> a.action, units |-> a.units, text |-> a.text]

add_entry(o, a) ==
  LET key == AddEntryKey(a)
      row == AddEntryRow(a)
      stored == [o EXCEPT !.entries = PutEntry(@, key, row)]
  IN UpdateMetadata(AddToIndexes(stored, key), a.units, a.action)

\* the key add_from_db_rows builds from a row: no period type
DbRowKey(row) ==
  PLEXOSPropertyKey(row.scenario_name, row.band, row.timeslice_name, row.date_from,
                    row.date_to, NoId, row.action, row.variable_name, row.text)

RECURSIVE add_from_db_rows(_, _)
add_from_db_rows(o, rows) ==
  IF Len(rows) = 0 THEN o
  ELSE LET row == Head(rows)
           key == DbRowKey(row)
           stored == [o EXCEPT !.entries = PutEntry(@, key, row)]
       IN add_from_db_rows(UpdateMetadata(AddToIndexes(stored, key), row.units, row.action),
                           Tail(rows))

\* a or b on optional strings
StrOr(a, b) == IF TruthyStr(a) THEN a ELSE b

\* the flat records of an overlay: one per key, every field by the name
\* add_entry gives it; the aliases from_records also reads are absent
to_records(o) ==
  [i \in 1..Len(o.entries) |->
     LET k == o.entries[i].key
         r == o.entries[i].row
     IN [value |-> r.value, scenario |-> k.scenario, band |-> k.band,
         timeslice |-> k.timeslice, time_slice |-> NoneStr,
         date_from |-> k.date_from, date_to |-> k.date_to,
         period_type_id |-> k.period_type_id,
         datafile_name |-> r.datafile_name, datafile_id |-> r.datafile_id,
         column_name |-> r.column_name, variable_name |-> r.variable_name,
         variable |-> NoneStr, variable_id |-> r.variable_id,
         action |-> r.action, units |-> r.units, text |-> r.text]]

\* the arguments from_records passes to add_entry for one record
FromRecordArgs(record, units) ==
  [AddEntryDefaults EXCEPT
     !.value = record.value, !.scenario = record.scenario, !.band = record.band,
     !.timeslice = StrOr(record.timeslice, record.time_slice),
     !.date_from = record.date_from, !.date_to = record.date_to,
     !.variable_name = StrOr(record.variable_name, record.variable),
     !.text = record.text, !.action = record.action,
     !.units = StrOr(record.units, units)]

RECURSIVE FromRecordsLoop(_, _, _)
FromRecordsLoop(o, records, units) ==
  IF Len(records) = 0 THEN o
  ELSE FromRecordsLoop(add_entry(o, FromRecordArgs(Head(records), units)),
                       Tail(records), units)

from_records(records, units) ==
  FromRecordsLoop([EmptyOverlay EXCEPT !.units = units], records, units)

\* ------------------------------------------------------------ sorting
\* lexicographic order on equal-length tuples of integers
RECURSIVE LexLess(_, _)
LexLess(a, b) ==
  IF Len(a) = 0 THEN FALSE
  ELSE IF Head(a) # Head(b) THEN Head(a) < Head(b)
  ELSE LexLess(Tail(a), Tail(b))

KeyTuple(k) ==
  <<StrRank(k.scenario), k.band, StrRank(k.timeslice), k.date_from, k.date_to,
    k.period_type_id, StrRank(k.action), StrRank(k.variable), StrRank(k.text)>>

\* the element a set of keys yields first when iterated: fixed by the hash
\* seed of the process, unknown to the program; a set holds at most MaxWrites
\* keys, and seed n yields the key with n (modulo the size) keys below it
HashSeeds == 0..(MaxWrites - 1)
IterFirst(T) ==
  CHOOSE k \in T :
    Cardinality({j \in T : LexLess(KeyTuple(j), KeyTuple(k))}) = hashSeed % Cardinality(T)

\* sorted(S, key=SortKey)[0]: sorted() is stable, so among the keys with the
\* least sort key the one the set yields first comes first
SortedFirst(S, sort_key) ==
  IterFirst({k \in S : \A j \in S : ~LexLess(sort_key[j], sort_key[k])})

BandOr1(b) == IF b = 0 THEN 1 ELSE b
DateOrEmpty(d) == IF TruthyDate(d) THEN d ELSE 0

ScenarioSortKey(k) == <<StrRank(OrEmpty(k.timeslice)), BandOr1(k.band)>>
TimesliceSortKey(k) == <<BandOr1(k.band), StrRank(OrEmpty(k.scenario))>>
BandSortKey(k) ==
  <<StrRank(OrEmpty(k.scenario)), StrRank(OrEmpty(k.timeslice)),
    DateOrEmpty(k.date_from)>>

\* --------------------------------------------------------- get_value_for
\* get_value_for without the lookups in _by_scenario and _by_timeslice: the
\* keyed lookups, then the band, then the first entry
get_value_for_KeyedOnly(o, scenario, band, timeslice, date_from, date_to) ==
  LET E == o.entries
      exact == DimKey(scenario, band, timeslice, date_from, date_to)
      nodates == DimKey(scenario, band, timeslice, NoDate, NoDate)
      noscen == DimKey(NoneStr, band, timeslice, NoDate, NoDate)
      nots == DimKey(scenario, band, NoneStr, NoDate, NoDate)
      bandonly == DimKey(NoneStr, band, NoneStr, NoDate, NoDate)
  IN IF HasKey(E, exact) THEN RowAt(E, exact).value
     ELSE IF (TruthyDate(date_from) \/ TruthyDate(date_to)) /\ HasKey(E, nodates)
       THEN RowAt(E, nodates).value
     ELSE IF TruthyStr(scenario) /\ HasKey(E, noscen) THEN RowAt(E, noscen).value
     ELSE IF TruthyStr(timeslice) /\ HasKey(E, nots) THEN RowAt(E, nots).value
     ELSE IF HasKey(E, bandonly) THEN RowAt(E, bandonly).value
     ELSE IF band \in DOMAIN o.by_band /\ o.by_band[band] # {}
       THEN RowAt(E, SortedFirst(o.by_band[band], [k \in o.by_band[band] |-> BandSortKey(k)])).value
     ELSE IF Len(E) > 0 THEN E[1].row.value
     ELSE NoValue

get_value_for(o, scenario, band, timeslice, date_from, date_to) ==
  LET E == o.entries
      exact == DimKey(scenario, band, timeslice, date_from, date_to)
      nodates == DimKey(scenario, band, timeslice, NoDate, NoDate)
      noscen == DimKey(NoneStr, band, timeslice, NoDate, NoDate)
      nots == DimKey(scenario, band, NoneStr, NoDate, NoDate)
      bandonly == DimKey(NoneStr, band, NoneStr, NoDate, NoDate)
  IN IF HasKey(E, exact) THEN RowAt(E, exact).value
     ELSE IF (TruthyDate(date_from) \/ TruthyDate(date_to)) /\ HasKey(E, nodates)
       THEN RowAt(E, nodates).value
     ELSE IF TruthyStr(scenario) /\ scenario \in DOMAIN o.by_scenario
             /\ o.by_scenario[scenario] # {}
       THEN RowAt(E, SortedFirst(o.by_scenario[scenario],
                           [k \in o.by_scenario[scenario] |-> ScenarioSortKey(k)])).value
     ELSE IF TruthyStr(timeslice) /\ timeslice \in DOMAIN o.by_timeslice
             /\ o.by_timeslice[timeslice] # {}
       THEN RowAt(E, SortedFirst(o.by_timeslice[timeslice],
                           [k \in o.by_timeslice[timeslice] |-> TimesliceSortKey(k)])).value
     ELSE IF TruthyStr(scenario) /\ HasKey(E, noscen) THEN RowAt(E, noscen).value
     ELSE IF TruthyStr(timeslice) /\ HasKey(E, nots) THEN RowAt(E, nots).value
     ELSE IF HasKey(E, bandonly) THEN RowAt(E, bandonly).value
     ELSE IF band \in DOMAIN o.by_band /\ o.by_band[band] # {}
       THEN RowAt(E, SortedFirst(o.by_band[band], [k \in o.by_band[band] |-> BandSortKey(k)])).value
     ELSE IF Len(E) > 0 THEN E[1].row.value
     ELSE NoValue

\* ------------------------------------------------------- return values
EmptyStrDict == [x \in {} |-> NoValue]
EmptyIntDict == [x \in {} |-> NoValue]
ResNone == [kind |-> "none", val |-> NoValue, sdict |-> EmptyStrDict, bdict |-> EmptyIntDict]
ResScalar(v) ==
  IF v = NoValue THEN ResNone
  ELSE [kind |-> "scalar", val |-> v, sdict |-> EmptyStrDict, bdict |-> EmptyIntDict]
\* a dict keyed by names (scenarios or timeslices)
ResStrDict(d) == [kind |-> "dict", val |-> NoValue, sdict |-> d, bdict |-> EmptyIntDict]
\* a dict keyed by band numbers
ResIntDict(d) == [kind |-> "dict", val |-> NoValue, sdict |-> EmptyStrDict, bdict |-> d]

\* -------------------------------------------------------- introspection
get_scenarios(o) == DOMAIN o.by_scenario
get_timeslices(o) == DOMAIN o.by_timeslice
get_bands(o) == DOMAIN o.by_band
has_bands(o) == Cardinality(DOMAIN o.by_band) > 1
has_scenarios(o) == DOMAIN o.by_scenario # {}
has_timeslices(o) == DOMAIN o.by_timeslice # {}
has_datafile(o) ==
  \E i \in 1..Len(o.entries) :
    TruthyStr(o.entries[i].row.datafile_name) \/ TruthyId(o.entries[i].row.datafile_id)
has_variable(o) ==
  \E i \in 1..Len(o.entries) :
    TruthyStr(o.entries[i].row.variable_name) \/ TruthyId(o.entries[i].row.variable_id)

get_non_scenario_timeslices(o) ==
  {k.timeslice : k \in {j \in Keys(o.entries) : j.scenario = NoneStr /\ j.timeslice # NoneStr}}
get_non_scenario_bands(o) ==
  {k \in Keys(o.entries) : k.scenario = NoneStr /\ k.band # 1}

resolve_scenarios(o, scenarios, bands) ==
  IF Cardinality(scenarios) = 1
     /\ Len(o.entries) = Cardinality(o.by_scenario[CHOOSE s \in scenarios : TRUE])
  THEN LET s == CHOOSE x \in scenarios : TRUE
       IN IF Cardinality(bands) > 1
          THEN ResStrDict([x \in {s} |-> get_value_for(o, s, 1, NoneStr, NoDate, NoDate)])
          ELSE ResScalar(get_value_for(o, s, 1, NoneStr, NoDate, NoDate))
  ELSE ResStrDict([s \in scenarios |-> get_value_for(o, s, 1, NoneStr, NoDate, NoDate)])

resolve_timeslices(o, timeslices) ==
  IF Cardinality(timeslices) = 1
  THEN ResScalar(get_value_for(o, NoneStr, 1, CHOOSE t \in timeslices : TRUE, NoDate, NoDate))
  ELSE ResStrDict([t \in timeslices |-> get_value_for(o, NoneStr, 1, t, NoDate, NoDate)])

\* ------------------------------------------------ _resolve_by_priority
\* dict truthiness of the ambient priority: None and {} are both falsy
PriorityActive(p) == ~p.isNone /\ DOMAIN p.map # {}

\* float("inf") - 1 is float("inf")
InfMinusOne == Inf

PrioOf(key, pmap) ==
  IF key.scenario = NoneStr THEN Inf
  ELSE IF key.scenario \in DOMAIN pmap THEN pmap[key.scenario]
  ELSE InfMinusOne

IsSimpleKey(key) ==
  key.band = 1 /\ key.timeslice = NoneStr /\ key.date_from = NoDate /\ key.date_to = NoDate

\* the positions in entries of the candidates, in insertion order
Candidates(E) ==
  LET simple == {i \in 1..Len(E) : IsSimpleKey(E[i].key)}
  IN IF simple # {} THEN simple ELSE 1..Len(E)

\* (mutant) the candidate with the largest priority number wins
StableSortFirst_LargestWins(E, cand, pmap) ==
  CHOOSE i \in cand :
    \A j \in cand :
      \/ PrioOf(E[i].key, pmap) > PrioOf(E[j].key, pmap)
      \/ (PrioOf(E[i].key, pmap) = PrioOf(E[j].key, pmap) /\ i <= j)

\* candidates.sort(key=prio)[0]: the sort is stable, the first entry with the
\* least priority number wins
StableSortFirst(E, cand, pmap) ==
  CHOOSE i \in cand :
    \A j \in cand :
      \/ PrioOf(E[i].key, pmap) < PrioOf(E[j].key, pmap)
      \/ (PrioOf(E[i].key, pmap) = PrioOf(E[j].key, pmap) /\ i <= j)

resolve_by_priority(o, pmap) ==
  LET cand == Candidates(o.entries)
  IN IF cand = {}
     THEN ResScalar(get_value_for(o, NoneStr, 1, NoneStr, NoDate, NoDate))
     ELSE ResScalar(o.entries[StableSortFirst(o.entries, cand, pmap)].row.value)

\* (mutant) scenario resolution is tried before the pure default
resolve_value_ScenariosFirst(o, priority) ==
  IF PriorityActive(priority) THEN resolve_by_priority(o, priority.map)
  ELSE
    LET default_key == DimKey(NoneStr, 1, NoneStr, NoDate, NoDate)
        scenarios == get_scenarios(o)
        timeslices == get_timeslices(o)
        bands == get_bands(o)
    IN IF scenarios # {} /\ get_non_scenario_timeslices(o) # {}
         THEN ResStrDict([t \in get_non_scenario_timeslices(o) |->
                            get_value_for(o, NoneStr, 1, t, NoDate, NoDate)])
       ELSE IF scenarios # {} /\ get_non_scenario_bands(o) # {}
         THEN ResScalar(get_value_for(o, NoneStr, 1, NoneStr, NoDate, NoDate))
       ELSE IF scenarios # {} THEN resolve_scenarios(o, scenarios, bands)
       ELSE IF HasKey(o.entries, default_key) /\ Len(o.entries) > 1 /\ timeslices # {}
         THEN ResScalar(RowAt(o.entries, default_key).value)
       ELSE IF timeslices # {} THEN resolve_timeslices(o, timeslices)
       ELSE IF has_bands(o)
         THEN ResIntDict([b \in bands |-> get_value_for(o, NoneStr, b, NoneStr, NoDate, NoDate)])
       ELSE ResScalar(get_value_for(o, NoneStr, 1, NoneStr, NoDate, NoDate))

\* ------------------------------------------------------ _resolve_value
resolve_value(o, priority) ==
  IF PriorityActive(priority) THEN resolve_by_priority(o, priority.map)
  ELSE
    LET default_key == DimKey(NoneStr, 1, NoneStr, NoDate, NoDate)
        has_pure_default == HasKey(o.entries, default_key)
        scenarios == get_scenarios(o)
        timeslices == get_timeslices(o)
        bands == get_bands(o)
        non_scenario_timeslices == get_non_scenario_timeslices(o)
        non_scenario_bands == get_non_scenario_bands(o)
    IN IF has_pure_default /\ Len(o.entries) > 1 /\ (scenarios # {} \/ timeslices # {})
         THEN ResScalar(RowAt(o.entries, default_key).value)
       ELSE IF scenarios # {} /\ non_scenario_timeslices # {}
         THEN ResStrDict([t \in non_scenario_timeslices |->
                            get_value_for(o, NoneStr, 1, t, NoDate, NoDate)])
       ELSE IF scenarios # {} /\ non_scenario_bands # {}
         THEN ResScalar(get_value_for(o, NoneStr, 1, NoneStr, NoDate, NoDate))
       ELSE IF scenarios # {} THEN resolve_scenarios(o, scenarios, bands)
       ELSE IF timeslices # {} THEN resolve_timeslices(o, timeslices)
       ELSE IF has_bands(o)
         THEN ResIntDict([b \in bands |-> get_value_for(o, NoneStr, b, NoneStr, NoDate, NoDate)])
       ELSE ResScalar(get_value_for(o, NoneStr, 1, NoneStr, NoDate, NoDate))

\* --------------------------------------------------- _filter_by_horizon
\* (mutant) the overlap test excludes the boundary days
InHorizon_Strict(key, h) ==
  \/ (key.date_from = NoDate /\ key.date_to = NoDate)
  \/ LET entry_from == IF TruthyDate(key.date_from) THEN key.date_from ELSE DateFloor
         entry_to == IF TruthyDate(key.date_to) THEN key.date_to ELSE DateCeil
     IN entry_from < h.to /\ entry_to > h.from

InHorizon(key, h) ==
  \/ (key.date_from = NoDate /\ key.date_to = NoDate)
  \/ LET entry_from == IF TruthyDate(key.date_from) THEN key.date_from ELSE DateFloor
         entry_to == IF TruthyDate(key.date_to) THEN key.date_to ELSE DateCeil
     IN entry_from <= h.to /\ entry_to >= h.from

filter_by_horizon(E, h) == SelectSeq(E, LAMBDA e : InHorizon(e.key, h))

\* ------------------------------------- _save / _rebuild / _restore_indexes
save_indexes(o) ==
  [by_scenario |-> o.by_scenario, by_band |-> o.by_band,
   by_timeslice |-> o.by_timeslice, by_date |-> o.by_date,
   by_variable |-> o.by_variable, by_text |-> o.by_text]

clear_indexes(o) ==
  [o EXCEPT !.by_scenario = EmptyStrIndex, !.by_band = EmptyIntIndex,
            !.by_timeslice = EmptyStrIndex, !.by_date = EmptyDateIndex,
            !.by_variable = EmptyStrIndex, !.by_text = EmptyStrIndex]

RECURSIVE AddAllToIndexes(_, _, _)
AddAllToIndexes(o, E, i) ==
  IF i > Len(E) THEN o ELSE AddAllToIndexes(AddToIndexes(o, E[i].key), E, i + 1)

rebuild_indexes(o) == AddAllToIndexes(clear_indexes(o), o.entries, 1)

\* (mutant) the indexes rebuilt over the filtered entries are left in place
restore_indexes_KeepRebuilt(o, saved) == o

restore_indexes(o, saved) ==
  [o EXCEPT !.by_scenario = saved.by_scenario, !.by_band = saved.by_band,
            !.by_timeslice = saved.by_timeslice, !.by_date = saved.by_date,
            !.by_variable = saved.by_variable, !.by_text = saved.by_text]

\* ------------------------------------------------------------ get_value
\* [ret |-> the value returned, after |-> the overlay when the call returns]
\* (mutant) with a priority map active the ranking runs over all the entries
get_value_RankUnfiltered(o, priority, h) ==
  IF Len(o.entries) = 0 THEN [ret |-> ResNone, after |-> o]
  ELSE IF ~h.isNone /\ ~PriorityActive(priority)
    THEN LET filtered_entries == filter_by_horizon(o.entries, h)
         IN IF Len(filtered_entries) = 0 THEN [ret |-> ResNone, after |-> o]
            ELSE [ret |-> resolve_value(
                            rebuild_indexes([o EXCEPT !.entries = filtered_entries]), priority),
                  after |-> o]
    ELSE [ret |-> resolve_value(o, priority), after |-> o]

get_value(o, priority, h) ==
  IF Len(o.entries) = 0 THEN [ret |-> ResNone, after |-> o]
  ELSE IF ~h.isNone
    THEN LET filtered_entries == filter_by_horizon(o.entries, h)
         IN IF Len(filtered_entries) = 0 THEN [ret |-> ResNone, after |-> o]
            ELSE LET original_entries == o.entries
                     original_indexes == save_indexes(o)
                     swapped == rebuild_indexes([o EXCEPT !.entries = filtered_entries])
                 IN [ret |-> resolve_value(swapped, priority),
                     after |-> restore_indexes([swapped EXCEPT !.entries = original_entries],
                                               original_indexes)]
    ELSE [ret |-> resolve_value(o, priority), after |-> o]

\* ====================================================================
\* Specification Spec: one overlay, written by add_entry and resolved by
\* get_value under the ambient context.
\* ====================================================================
NoPriority == [isNone |-> TRUE, map |-> [x \in {} |-> 0]]
SomePriority(m) == [isNone |-> FALSE, map |-> m]
NoHorizon == [isNone |-> TRUE, from |-> NoDate, to |-> NoDate]
SomeHorizon(f, t) == [isNone |-> FALSE, from |-> f, to |-> t]

\* ------------------------------------------------- scoped context managers
\* a scope is the suspended generator of a context manager: the values it
\* captured in `previous` before it set its own
ManagesPriority(kind) == kind \in {"scenario_priority", "scenario_and_horizon"}
ManagesHorizon(kind) == kind \in {"horizon", "scenario_and_horizon"}

\* (mutant) the scope captures `previous` after it has set its own value
EnterScope_CaptureAfterSet(kind, p, h, cur_p, cur_h) ==
  [scope |-> [kind |-> kind,
              previous_p |-> IF ManagesPriority(kind) THEN p ELSE cur_p,
              previous_h |-> IF ManagesHorizon(kind) THEN h ELSE cur_h],
   priority |-> IF ManagesPriority(kind) THEN p ELSE cur_p,
   horizon |-> IF ManagesHorizon(kind) THEN h ELSE cur_h]

\* previous = get_...(); set_...(value); yield
EnterScope(kind, p, h, cur_p, cur_h) ==
  [scope |-> [kind |-> kind, previous_p |-> cur_p, previous_h |-> cur_h],
   priority |-> IF ManagesPriority(kind) THEN p ELSE cur_p,
   horizon |-> IF ManagesHorizon(kind) THEN h ELSE cur_h]

\* (mutant) restore without try/finally: an exception skips the restore
ExitScope_NoFinally(scope, exc, cur_p, cur_h) ==
  [priority |-> IF ManagesPriority(scope.kind) /\ ~exc THEN scope.previous_p ELSE cur_p,
   horizon |-> IF ManagesHorizon(scope.kind) /\ ~exc THEN scope.previous_h ELSE cur_h]

\* finally: set_...(previous), on return and on exception alike
ExitScope(scope, exc, cur_p, cur_h) ==
  [priority |-> IF ManagesPriority(scope.kind) THEN scope.previous_p ELSE cur_p,
   horizon |-> IF ManagesHorizon(scope.kind) THEN scope.previous_h ELSE cur_h]

\* ====================================================================
\* The parser: time-series references and their attachment
\* ====================================================================
\* file data: a float constant, or a series of values
FloatData(v) == [kind |-> "float", data |-> <<v>>]
SeriesData(d) == [kind |-> "series", data |-> d]
IsFloat(ts) == ts.kind = "float"
\* max(ts.data)
RECURSIVE SeqMax(_)
SeqMax(d) ==
  IF Len(d) = 1 THEN d[1]
  ELSE LET m == SeqMax(Tail(d)) IN IF d[1] >= m THEN d[1] ELSE m
\* len(set(ts.data)) == 1
IsConstantSeries(d) == Cardinality({d[i] : i \in 1..Len(d)}) = 1

NoError == ""
NoMembership == 0
NoBand == 0

\* a TimeSeriesReference
TimeSeriesReference(uuid, field, source_type, path, datafile, variable, coll, membership) ==
  [component_uuid |-> uuid, component_name |-> uuid, field_name |-> field,
   source_type |-> source_type, datafile_path |-> path,
   datafile_component_name |-> datafile, variable_name |-> variable,
   is_collection_property |-> coll, membership_id |-> membership]

\* create_plexos_row that copies the template without its datafile name
create_plexos_row_NoDatafile(value, template) ==
  [value |-> value, units |-> template.units, action |-> template.action,
   scenario_name |-> template.scenario_name, band |-> template.band,
   timeslice_name |-> template.timeslice_name, date_from |-> template.date_from,
   date_to |-> template.date_to, datafile_name |-> NoneStr,
   datafile_id |-> template.datafile_id, column_name |-> template.column_name,
   variable_name |-> template.variable_name, variable_id |-> template.variable_id,
   text |-> template.text]

\* utils_parser.create_plexos_row(value, template)
create_plexos_row(value, template) ==
  [value |-> value, units |-> template.units, action |-> template.action,
   scenario_name |-> template.scenario_name, band |-> template.band,
   timeslice_name |-> template.timeslice_name, date_from |-> template.date_from,
   date_to |-> template.date_to, datafile_name |-> template.datafile_name,
   datafile_id |-> template.datafile_id, column_name |-> template.column_name,
   variable_name |-> template.variable_name, variable_id |-> template.variable_id,
   text |-> template.text]

\* for key, entry in list(prop.entries.items()):
\*     prop.entries[key] = create_plexos_row(value, entry)
ReplaceValues(o, value) ==
  [o EXCEPT !.entries =
     [i \in 1..Len(o.entries) |->
        [key |-> o.entries[i].key, row |-> create_plexos_row(value, o.entries[i].row)]]]

\* the same loop on the component's own property, when it has the field
UpdateOwnProperty(sys, ref, value) ==
  LET t == <<ref.component_uuid, ref.field_name>>
  IN IF t \in DOMAIN sys.properties
     THEN [sys EXCEPT !.properties[t] = ReplaceValues(@, value)]
     ELSE sys

\* system.add_time_series(field_ts, owner, **features)
add_time_series(sys, owner, name, band, data) ==
  [sys EXCEPT !.time_series =
     Append(@, [owner |-> owner, name |-> name, band |-> band, data |-> data])]

\* system.get_component_by_uuid / system.get_component: counted
CountLookup(m) == [m EXCEPT !.calls.lookups = @ + 1]

\* file_path_str.lower().endswith(".csv")
IsCsv(path) == path \in {"a.csv", "b.csv"}

\* Path.exists()
FileExists(world, path) == path \in DOMAIN world.files /\ world.files[path].exists

\* extract_file_data(path): parses the file, counted
extract_file_data(world, path) == world.files[path].contents

\* ---------------------------------------------- _get_or_parse_timeseries
\* the lookup without the single-entry fallback: a name the map does not
\* have is an error
PickFromMap_NoFallback(component_map, component_name) ==
  IF component_name \in DOMAIN component_map
    THEN [err |-> NoError, ts |-> component_map[component_name]]
  ELSE [err |-> "Component not found in file", ts |-> FloatData(0)]

\* the entry of the map for the name, else its only entry, else an error
PickFromMap(component_map, component_name) ==
  IF component_name \in DOMAIN component_map
    THEN [err |-> NoError, ts |-> component_map[component_name]]
  ELSE IF Cardinality(DOMAIN component_map) = 1
    THEN [err |-> NoError, ts |-> component_map[CHOOSE n \in DOMAIN component_map : TRUE]]
  ELSE [err |-> "Component not found in file", ts |-> FloatData(0)]

\* self._parsed_files_cache[path] = extract_file_data(path)
parse_into_cache(m, world, file_path) ==
  [m EXCEPT !.calls.parses = @ + 1,
            !.parser.parsed_files_cache =
               [x \in DOMAIN @ \cup {file_path} |->
                  IF x = file_path THEN extract_file_data(world, file_path) ELSE @[x]]]

get_or_parse_timeseries(m, world, file_path, component_name) ==
  IF file_path \in DOMAIN m.parser.parsed_files_cache
  THEN LET component_map == m.parser.parsed_files_cache[file_path]
       IN IF DOMAIN component_map = {}
          THEN [m |-> m, err |-> "File contains no data", ts |-> FloatData(0)]
          ELSE [m |-> m] @@ PickFromMap(component_map, component_name)
  ELSE LET cached == parse_into_cache(m, world, file_path)
       IN [m |-> cached] @@
          PickFromMap(cached.parser.parsed_files_cache[file_path], component_name)

\* --------------------------------- _attach_collection_property_timeseries
attach_collection_property_timeseries(m, ref, ts, is_constant) ==
  LET t == <<ref.component_uuid, ref.membership_id>>
      coll == m.system.collection_properties
  IN IF t \notin DOMAIN coll THEN m
     ELSE IF ref.field_name \notin DOMAIN coll[t] THEN m
     ELSE IF is_constant
       THEN [m EXCEPT !.system.collection_properties[t][ref.field_name] =
                        ReplaceValues(@, ts.data[1])]
     ELSE LET added == add_time_series(m.system, t, ref.field_name, NoBand, ts.data)
          IN [m EXCEPT !.system =
                [added EXCEPT !.collection_properties[t][ref.field_name] =
                                ReplaceValues(@, SeqMax(ts.data))]]

\* ------------------------------------------- _attach_or_update_property
\* _attach_or_update_property without the is_constant branch: every series
\* of an own property is attached
attach_or_update_property_AlwaysAttach(m, ref, ts) ==
  LET is_constant == IsConstantSeries(ts.data)
  IN IF ref.is_collection_property
       THEN attach_collection_property_timeseries(m, ref, ts, is_constant)
     ELSE LET owner == <<ref.component_uuid, NoMembership>>
              added == add_time_series(m.system, owner, ref.field_name, NoBand, ts.data)
          IN [m EXCEPT !.system = UpdateOwnProperty(added, ref, SeqMax(ts.data))]

attach_or_update_property(m, ref, ts) ==
  LET is_constant == IsConstantSeries(ts.data)
  IN IF ref.is_collection_property
       THEN attach_collection_property_timeseries(m, ref, ts, is_constant)
     ELSE IF is_constant
       THEN [m EXCEPT !.system = UpdateOwnProperty(@, ref, ts.data[1])]
     ELSE LET owner == <<ref.component_uuid, NoMembership>>
              added == add_time_series(m.system, owner, ref.field_name, NoBand, ts.data)
          IN [m EXCEPT !.system = UpdateOwnProperty(added, ref, SeqMax(ts.data))]

\* self._attached_timeseries[cache_key] = True
MarkAttached(m, ref) ==
  [m EXCEPT !.parser.attached_timeseries = @ \cup {<<ref.component_uuid, ref.field_name>>}]
AlreadyAttached(m, ref) ==
  <<ref.component_uuid, ref.field_name>> \in m.parser.attached_timeseries

\* ---------------------------------- _attach_direct_datafile_timeseries
\* (mutant) the attached check comes after the component lookup
attach_direct_datafile_timeseries_LateCheck(m, world, ref) ==
  LET looked == CountLookup(m)
  IN IF ref.component_uuid \notin world.components
       THEN [m |-> looked, err |-> "Component not found"]
     ELSE IF AlreadyAttached(m, ref) THEN [m |-> looked, err |-> NoError]
     ELSE IF ~FileExists(world, ref.datafile_path)
       THEN [m |-> looked, err |-> "Data file not found"]
     ELSE LET got == get_or_parse_timeseries(looked, world, ref.datafile_path,
                                             ref.component_name)
          IN IF got.err # NoError THEN [m |-> got.m, err |-> got.err]
             ELSE IF IsFloat(got.ts)
               THEN [m |-> MarkAttached(
                             [got.m EXCEPT !.system =
                                UpdateOwnProperty(@, ref, got.ts.data[1])], ref),
                     err |-> NoError]
             ELSE [m |-> MarkAttached(attach_or_update_property(got.m, ref, got.ts), ref),
                   err |-> NoError]

attach_direct_datafile_timeseries(m, world, ref) ==
  IF AlreadyAttached(m, ref) THEN [m |-> m, err |-> NoError]
  ELSE LET looked == CountLookup(m)
       IN IF ref.component_uuid \notin world.components
            THEN [m |-> looked, err |-> "Component not found"]
          ELSE IF ~FileExists(world, ref.datafile_path)
            THEN [m |-> looked, err |-> "Data file not found"]
          ELSE LET got == get_or_parse_timeseries(looked, world, ref.datafile_path,
                                                  ref.component_name)
               IN IF got.err # NoError THEN [m |-> got.m, err |-> got.err]
                  ELSE IF IsFloat(got.ts)
                    THEN [m |-> MarkAttached(
                                  [got.m EXCEPT !.system =
                                     UpdateOwnProperty(@, ref, got.ts.data[1])], ref),
                          err |-> NoError]
                  ELSE [m |-> MarkAttached(attach_or_update_property(got.m, ref, got.ts), ref),
                        err |-> NoError]

\* ------------------------------------------------ _attach_band_timeseries
\* the key of a band series in a file map: f"{component_name}_band_{n}"
BandKey(component_name, band_num) ==
  CASE component_name = "c1" /\ band_num = 1 -> "c1_band_1"
    [] component_name = "c1" /\ band_num = 2 -> "c1_band_2"
    [] OTHER -> "no_band_key"
BandNumbers == {1, 2}

\* attaches the series of each band in turn, in ascending order of band, and
\* collects the maxima; series(b) is the series of band b, or a float or
\* nothing, which the loop skips
RECURSIVE AttachBands(_, _, _, _, _)
AttachBands(sys, ref, bands, series, maxima) ==
  IF bands = {} THEN [sys |-> sys, maxima |-> maxima]
  ELSE LET b == CHOOSE x \in bands : \A y \in bands : x <= y
           ts == series[b]
           is_series == ts.kind = "series"
       IN AttachBands(
            IF is_series
            THEN add_time_series(sys, <<ref.component_uuid, NoMembership>>,
                                 ref.field_name, b, ts.data)
            ELSE sys,
            ref, bands \ {b}, series,
            IF is_series THEN maxima \cup {SeqMax(ts.data)} ELSE maxima)
SetMax(S) == CHOOSE x \in S : \A y \in S : y <= x

\* ------------------------------ _attach_datafile_component_timeseries
attach_datafile_component_timeseries(m, world, ref) ==
  IF AlreadyAttached(m, ref) THEN [m |-> m, err |-> NoError]
  ELSE LET looked == CountLookup(m)
           looked2 == CountLookup(looked)
           name == ref.datafile_component_name
       IN IF ref.component_uuid \notin world.components
            THEN [m |-> looked, err |-> "Component not found"]
          ELSE IF name \notin DOMAIN world.datafiles
            THEN [m |-> looked2, err |-> "Datafile not found"]
          ELSE IF ~TruthyStr(world.datafiles[name])
            THEN [m |-> looked2, err |-> "No valid filename in datafile"]
          ELSE IF ~IsCsv(world.datafiles[name])
            THEN [m |-> looked2, err |-> "Datafile filename is not a CSV"]
          ELSE IF ~FileExists(world, world.datafiles[name])
            THEN [m |-> looked2, err |-> "File not found"]
          ELSE
            LET file_path == world.datafiles[name]
                parsed == IF file_path \in DOMAIN looked2.parser.parsed_files_cache
                          THEN looked2
                          ELSE parse_into_cache(looked2, world, file_path)
                file_map == parsed.parser.parsed_files_cache[file_path]
                band_nums == {b \in BandNumbers :
                                BandKey(ref.component_name, b) \in DOMAIN file_map}
            IN IF band_nums # {}
               THEN LET series == [b \in band_nums |->
                                     file_map[BandKey(ref.component_name, b)]]
                        done == AttachBands(parsed.system, ref, band_nums, series, {})
                        sys == IF done.maxima # {}
                               THEN UpdateOwnProperty(done.sys, ref, SetMax(done.maxima))
                               ELSE done.sys
                    IN [m |-> MarkAttached([parsed EXCEPT !.system = sys], ref),
                        err |-> NoError]
               ELSE LET got == get_or_parse_timeseries(parsed, world, file_path,
                                                       ref.component_name)
                    IN IF got.err # NoError THEN [m |-> got.m, err |-> got.err]
                       ELSE IF IsFloat(got.ts)
                         THEN [m |-> MarkAttached(
                                       [got.m EXCEPT !.system =
                                          UpdateOwnProperty(@, ref, got.ts.data[1])], ref),
                               err |-> NoError]
                       ELSE [m |-> MarkAttached(
                                     attach_or_update_property(got.m, ref, got.ts), ref),
                             err |-> NoError]

\* ------------------------------------------- _handle_constant_variable
handle_constant_variable(m, ref, variable_value) ==
  IF ref.is_collection_property
  THEN LET t == <<ref.component_uuid, ref.membership_id>>
           coll == m.system.collection_properties
       IN IF t \notin DOMAIN coll THEN MarkAttached(m, ref)
          ELSE IF ref.field_name \notin DOMAIN coll[t] THEN MarkAttached(m, ref)
          ELSE MarkAttached(
                 [m EXCEPT !.system.collection_properties[t][ref.field_name] =
                             ReplaceValues(@, variable_value)], ref)
  ELSE MarkAttached([m EXCEPT !.system = UpdateOwnProperty(@, ref, variable_value)], ref)

\* ----------------------------------------- _attach_variable_timeseries
\* the multiplication sign, a synonym of "*" in action_map
TimesSign == "U+00D7"
\* action_map of apply_action_to_timeseries, as a function on its keys
ActionMapKeys == {TimesSign, "x", "*", "+", "-", "/", "="}
NormalizedAction(action) ==
  IF action \in {TimesSign, "x"} THEN "*" ELSE action

\* what a call leaves its caller with: a value, or an exception with its text
Returned(value) == [raised |-> FALSE, err |-> NoError, value |-> value]
Raised(err) == [raised |-> TRUE, err |-> err]

\* x / value on the numbers of the model: the quotient, rounded down
Quotient(x, value) == x \div value

\* apply_action_to_timeseries without the test of the divisor: a series
\* divided by zero comes back as it was
apply_action_to_timeseries_NoZeroTest(data, action, value) ==
  LET normalized_action == NormalizedAction(action)
  IN IF normalized_action \notin {"*", "+", "-", "/", "="}
       THEN Raised("Unsupported action")
     ELSE IF normalized_action = "=" THEN Returned(data)
     ELSE IF normalized_action = "*"
       THEN Returned([i \in 1..Len(data) |-> data[i] * value])
     ELSE IF normalized_action = "+"
       THEN Returned([i \in 1..Len(data) |-> data[i] + value])
     ELSE IF normalized_action = "-"
       THEN Returned([i \in 1..Len(data) |-> data[i] - value])
     ELSE IF value = 0 THEN Returned(data)
     ELSE Returned([i \in 1..Len(data) |-> Quotient(data[i], value)])

\* utils_parser.apply_action_to_timeseries(ts, action, value)
apply_action_to_timeseries(data, action, value) ==
  LET normalized_action == NormalizedAction(action)
  IN IF normalized_action \notin {"*", "+", "-", "/", "="}
       THEN Raised("Unsupported action")
     ELSE IF normalized_action = "=" THEN Returned(data)
     ELSE IF normalized_action = "*"
       THEN Returned([i \in 1..Len(data) |-> data[i] * value])
     ELSE IF normalized_action = "+"
       THEN Returned([i \in 1..Len(data) |-> data[i] + value])
     ELSE IF normalized_action = "-"
       THEN Returned([i \in 1..Len(data) |-> data[i] - value])
     ELSE IF value = 0 THEN Raised("Cannot divide by zero")
     ELSE Returned([i \in 1..Len(data) |-> Quotient(data[i], value)])

\* utils_parser.apply_action(base_value, new_value, action)
apply_action(base_value, new_value, action) ==
  IF action = "*" THEN Returned(base_value * new_value)
  ELSE IF action = "+" THEN Returned(base_value + new_value)
  ELSE IF action = "-" THEN Returned(base_value - new_value)
  ELSE IF action = "/" /\ new_value # 0 THEN Returned(Quotient(base_value, new_value))
  ELSE Returned(new_value)

\* property_value.get_entry(): the entry of a property that holds one entry
get_entry(o) == o.entries[1].row

\* component.get_property_value(ref.field_name): the component's own
\* property, or an empty overlay when it has none
OwnProperty(sys, ref) ==
  LET t == <<ref.component_uuid, ref.field_name>>
  IN IF t \in DOMAIN sys.properties THEN sys.properties[t] ELSE EmptyOverlay
\* prop_entry.action, if the property has an entry
OwnAction(property_value) ==
  IF Len(property_value.entries) > 0 THEN get_entry(property_value).action ELSE NoneStr

\* the file of a band entry of the profile: the file named by the datafile
\* component when the system has it, else the name taken as a path
BandFilePath(world, datafile_name) ==
  IF datafile_name \in DOMAIN world.datafiles /\ TruthyStr(world.datafiles[datafile_name])
  THEN world.datafiles[datafile_name] ELSE datafile_name

\* one turn of "for band_num in bands": what the turn leaves of the parser,
\* and the maximum of the series it attached, if it attached one; base_value
\* is property_value.get_value(), which no turn of the loop changes
VariableBand(m, world, ref, profile_prop, action, base_value, band_num) ==
  LET i == CHOOSE n \in 1..Len(profile_prop.entries) :
             /\ profile_prop.entries[n].row.band = band_num
             /\ \A k \in 1..(n - 1) : profile_prop.entries[k].row.band # band_num
      band_entry == profile_prop.entries[i].row
      looked == CountLookup(m)
      band_file_path == BandFilePath(world, band_entry.datafile_name)
  IN IF ~TruthyStr(band_entry.datafile_name)
       THEN [m |-> m, maxima |-> {}, err |-> NoError]
     ELSE IF ~FileExists(world, band_file_path)
       THEN [m |-> looked, maxima |-> {}, err |-> NoError]
     ELSE
       LET parsed == IF band_file_path \in DOMAIN looked.parser.parsed_files_cache
                     THEN looked ELSE parse_into_cache(looked, world, band_file_path)
           ts_map == parsed.parser.parsed_files_cache[band_file_path]
       IN IF ref.component_name \notin DOMAIN ts_map
            THEN [m |-> parsed, maxima |-> {}, err |-> NoError]
          ELSE IF ts_map[ref.component_name].kind # "series"
            THEN [m |-> parsed, maxima |-> {}, err |-> NoError]
          ELSE
            LET applied == IF TruthyStr(action) /\ base_value.kind = "scalar"
                              /\ base_value.val # 0
                           THEN apply_action_to_timeseries(
                                  ts_map[ref.component_name].data, action, base_value.val)
                           ELSE Returned(ts_map[ref.component_name].data)
            IN IF applied.raised THEN [m |-> parsed, maxima |-> {}, err |-> applied.err]
               ELSE [m |-> [parsed EXCEPT !.system =
                              add_time_series(@, <<ref.component_uuid, NoMembership>>,
                                              ref.field_name, band_num, applied.value)],
                     maxima |-> {SeqMax(applied.value)},
                     err |-> NoError]

\* for band_num in bands: ...
RECURSIVE VariableBandLoop(_, _, _, _, _, _, _, _)
VariableBandLoop(m, world, ref, profile_prop, action, base_value, bands, maxima) ==
  IF bands = {} THEN [m |-> m, maxima |-> maxima, err |-> NoError]
  ELSE LET band_num == CHOOSE x \in bands : \A y \in bands : x <= y
           turn == VariableBand(m, world, ref, profile_prop, action, base_value, band_num)
       IN IF turn.err # NoError THEN turn
          ELSE VariableBandLoop(turn.m, world, ref, profile_prop, action, base_value,
                                bands \ {band_num}, maxima \cup turn.maxima)

\* extract_one_time_series(path, component): parses the file, and gives the
\* data it holds for the component; a file without the component raises
extract_one_time_series(world, path, component) ==
  IF component \in DOMAIN extract_file_data(world, path)
  THEN Returned(extract_file_data(world, path)[component])
  ELSE Raised("Component not found in file")

\* the branch "if not bands" of _attach_variable_timeseries: the profile
\* names a file and none of its entries has a band; the file is parsed with
\* extract_one_time_series, past the cache, and whatever is raised after the
\* file was found is logged and swallowed
attach_bandless_variable(m, world, ref, profile_prop) ==
  LET variable_constant_value == get_value(profile_prop, NoPriority, NoHorizon).ret
      looked == CountLookup(m)
      file_path == BandFilePath(world, profile_prop.entries[1].row.datafile_name)
      parsed == [looked EXCEPT !.calls.parses = @ + 1]
  IN IF variable_constant_value.kind # "scalar" \/ variable_constant_value.val = 0
       THEN [m |-> m, err |-> NoError]
     ELSE IF ~FileExists(world, file_path)
       THEN [m |-> looked, err |-> "File not found"]
     ELSE LET got == extract_one_time_series(world, file_path, ref.component_name)
          IN IF got.raised THEN [m |-> parsed, err |-> NoError]
             ELSE IF got.value.kind # "series" THEN [m |-> parsed, err |-> NoError]
             ELSE LET base_value == IF IsConstantSeries(got.value.data)
                                    THEN got.value.data[1] ELSE SeqMax(got.value.data)
                      result_value == base_value * variable_constant_value.val
                  IN [m |-> MarkAttached(
                              [parsed EXCEPT !.system =
                                 UpdateOwnProperty(@, ref, result_value)], ref),
                      err |-> NoError]

attach_variable_timeseries(m, world, ref) ==
  IF AlreadyAttached(m, ref) THEN [m |-> m, err |-> NoError]
  ELSE LET looked == CountLookup(m)
           looked2 == CountLookup(looked)
       IN IF ref.component_uuid \notin world.components
            THEN [m |-> looked, err |-> "Component not found"]
          ELSE IF ~TruthyStr(ref.variable_name)
            THEN [m |-> looked, err |-> "No variable name in reference"]
          ELSE IF ref.variable_name \notin DOMAIN world.variables
            THEN [m |-> looked2, err |-> "Variable not found"]
          ELSE
            LET profile_prop == world.variables[ref.variable_name]
            IN IF Len(profile_prop.entries) = 0 THEN [m |-> looked2, err |-> NoError]
               ELSE
                 LET first_entry == profile_prop.entries[1].row
                     bands == {profile_prop.entries[n].row.band :
                                 n \in 1..Len(profile_prop.entries)} \ {0}
                 IN IF ~TruthyStr(first_entry.datafile_name)
                    THEN LET variable_value == get_value(profile_prop, NoPriority,
                                                         NoHorizon).ret
                         IN IF variable_value.kind = "none"
                            THEN [m |-> looked2, err |-> NoError]
                            ELSE [m |-> handle_constant_variable(looked2, ref,
                                                                 variable_value.val),
                                  err |-> NoError]
                    ELSE IF bands = {}
                    THEN attach_bandless_variable(looked2, world, ref, profile_prop)
                    ELSE
                      LET property_value == OwnProperty(looked2.system, ref)
                          done == VariableBandLoop(
                                    looked2, world, ref, profile_prop,
                                    OwnAction(property_value),
                                    get_value(property_value, NoPriority, NoHorizon).ret,
                                    bands, {})
                          sys == IF done.maxima # {}
                                 THEN UpdateOwnProperty(done.m.system, ref,
                                                        SetMax(done.maxima))
                                 ELSE done.m.system
                      IN IF done.err # NoError THEN [m |-> done.m, err |-> done.err]
                         ELSE [m |-> MarkAttached([done.m EXCEPT !.system = sys], ref),
                               err |-> NoError]

\* ------------------------------------------------ the parser's world
\* a property of one row: a value, the action "=", and the file or variable
\* the value comes from
OneRow(value, datafile_name, variable_name) ==
  add_entry(EmptyOverlay,
            [AddEntryDefaults EXCEPT !.value = value, !.action = "=",
               !.datafile_name = datafile_name, !.variable_name = variable_name])

\* the components build_system_components has added: c1, with the property
\* "rating" of its own and on its membership 1, the datafile components DF
\* (file a.csv) and DF2 (no file name), and possibly the variable v1
InitialSystem ==
  [properties |-> [t \in {<<"c1", "rating">>} |-> OneRow(5, "a.csv", NoneStr)],
   collection_properties |->
     [t \in {<<"c1", 1>>} |-> [f \in {"rating"} |-> OneRow(6, "a.csv", NoneStr)]],
   time_series |-> <<>>]
Datafiles == [d \in {"DF", "DF2", "DF3"} |->
                CASE d = "DF" -> "a.csv" [] d = "DF2" -> NoneStr [] OTHER -> "a.txt"]

\* what a.csv holds once parsed: nothing, a constant, a constant series, a
\* series, another component's series, two components' series, band series
FileContents ==
  { [n \in {} |-> FloatData(0)],
    [n \in {"c1"} |-> FloatData(7)],
    [n \in {"c1"} |-> SeriesData(<<3, 3>>)],
    [n \in {"c1"} |-> SeriesData(<<1, 4>>)],
    [n \in {"c2"} |-> SeriesData(<<2, 8>>)],
    [n \in {"c2", "c3"} |-> SeriesData(<<2, 8>>)],
    [n \in {"c1_band_1", "c1_band_2"} |->
       IF n = "c1_band_1" THEN SeriesData(<<1, 9>>) ELSE SeriesData(<<2, 2>>)] }
\* a profile of one row that has no band and names a datafile component
BandlessRow(value, datafile_name) ==
  add_entry(EmptyOverlay,
            [AddEntryDefaults EXCEPT !.value = value, !.band = NoBand, !.action = "=",
               !.datafile_name = datafile_name])
\* the profile of the variable v1: none, a constant, no value, a file, a
\* file without band
Profiles ==
  { EmptyOverlay, OneRow(4, NoneStr, NoneStr), OneRow(NoValue, NoneStr, NoneStr),
    OneRow(1, "DF", NoneStr), OneRow(1, "b.csv", NoneStr), BandlessRow(2, "DF") }
Worlds ==
  { [components |-> {"c1"},
     files |-> [f \in {"a.csv", "b.csv"} |->
                  [exists |-> f = "a.csv",
                   contents |-> IF f = "a.csv" THEN c ELSE [n \in {} |-> FloatData(0)]]],
     datafiles |-> Datafiles,
     variables |-> [v \in {"v1"} |-> pr]] : c \in FileContents, pr \in Profiles }
DefaultWorld == CHOOSE w \in Worlds :
                  /\ DOMAIN w.files["a.csv"].contents = {}
                  /\ w.variables["v1"] = EmptyOverlay

\* the references the component build can register
References ==
  { TimeSeriesReference("c1", "rating", "DIRECT_DATAFILE", "a.csv", NoneStr, NoneStr,
                        FALSE, NoMembership),
    TimeSeriesReference("c1", "rating", "DIRECT_DATAFILE", "b.csv", NoneStr, NoneStr,
                        FALSE, NoMembership),
    TimeSeriesReference("c1", "rating", "DIRECT_DATAFILE", "a.csv", NoneStr, NoneStr,
                        TRUE, 1),
    TimeSeriesReference("c1", "rating", "DIRECT_DATAFILE", "a.csv", NoneStr, NoneStr,
                        TRUE, 2),
    TimeSeriesReference("c2", "rating", "DIRECT_DATAFILE", "a.csv", NoneStr, NoneStr,
                        FALSE, NoMembership),
    TimeSeriesReference("c1", "rating", "DATAFILE_COMPONENT", NoneStr, "DF", NoneStr,
                        FALSE, NoMembership),
    TimeSeriesReference("c1", "rating", "DATAFILE_COMPONENT", NoneStr, "DF2", NoneStr,
                        FALSE, NoMembership),
    TimeSeriesReference("c1", "rating", "DATAFILE_COMPONENT", NoneStr, "DF3", NoneStr,
                        FALSE, NoMembership),
    TimeSeriesReference("c1", "rating", "DATAFILE_COMPONENT", NoneStr, "DF9", NoneStr,
                        FALSE, NoMembership),
    TimeSeriesReference("c1", "rating", "VARIABLE", NoneStr, NoneStr, "v1",
                        FALSE, NoMembership),
    TimeSeriesReference("c1", "rating", "VARIABLE", NoneStr, NoneStr, "v1",
                        TRUE, 1),
    TimeSeriesReference("c1", "load", "VARIABLE", NoneStr, NoneStr, "v1",
                        FALSE, NoMembership),
    TimeSeriesReference("c1", "rating", "VARIABLE", NoneStr, NoneStr, "v9",
                        FALSE, NoMembership) }

\* PLEXOSParser.__init__, followed by the component build
InitParser ==
  /\ parser = [time_series_references |-> <<>>,
               parsed_files_cache |-> [f \in {} |-> [n \in {} |-> FloatData(0)]],
               attached_timeseries |-> {},
               failed_references |-> <<>>]
  /\ system = InitialSystem
  /\ calls = [lookups |-> 0, parses |-> 0]
  /\ pending = <<>>
  /\ passes = 0
  /\ attempt = <<>>
  /\ tried = <<>>

\* ====================================================================
\* Inputs of the overlay specifications
\* ====================================================================
Scenarios == {NoneStr, "s1", "s2"}
Bands == {1, 2}
Timeslices == {NoneStr, "t1", "t2"}
\* (date_from, date_to) of an entry
DateRanges == {<<NoDate, NoDate>>, <<1, 2>>, <<3, NoDate>>, <<NoDate, 1>>}
PriorityMaps ==
  {[x \in {} |-> 0], ("s1" :> 1 @@ "s2" :> 2), ("s1" :> 2 @@ "s2" :> 1),
   ("s2" :> 1), ("s1" :> 1 @@ "s2" :> 1)}
Priorities == {NoPriority} \cup {SomePriority(m) : m \in PriorityMaps}
Horizons == {NoHorizon, SomeHorizon(2, 3)}

\* every write carries a fresh value, so that the entry a result came from
\* can be told from the result
FreshValue == Len(written) + 1

Init ==
  /\ prop = EmptyOverlay
  /\ written = <<>>
  /\ rebuilt = EmptyOverlay
  /\ scopes = <<>>
  /\ entered = <<>>
  /\ left = <<>>
  /\ scenario_priority = NoPriority
  /\ horizon = NoHorizon
  /\ hashSeed \in HashSeeds
  /\ op = "init"
  /\ ret = ResNone
  /\ InitParser
  /\ inputs = DefaultWorld

\* prop.add_entry(value, scenario=, band=, timeslice=, date_from=, date_to=)
AddEntry ==
  /\ Len(written) < MaxWrites
  /\ \E sc \in Scenarios, b \in Bands, ts \in Timeslices, d \in DateRanges :
       LET a == [AddEntryDefaults EXCEPT !.value = FreshValue, !.scenario = sc,
                   !.band = b, !.timeslice = ts, !.date_from = d[1], !.date_to = d[2]]
       IN /\ prop' = add_entry(prop, a)
          /\ written' = Append(written, a)
  /\ op' = "add_entry"
  /\ UNCHANGED parserVars
  /\ ret' = ResNone
  /\ rebuilt' = EmptyOverlay
  /\ UNCHANGED scopeVars
  /\ UNCHANGED <<scenario_priority, horizon, hashSeed>>

\* context.set_scenario_priority(priority)
SetScenarioPriority ==
  /\ \E p \in Priorities : p # scenario_priority /\ scenario_priority' = p
  /\ op' = "set_context"
  /\ UNCHANGED parserVars
  /\ ret' = ResNone
  /\ rebuilt' = EmptyOverlay
  /\ left' = <<>>
  /\ UNCHANGED <<scopes, entered>>
  /\ UNCHANGED <<prop, written, horizon, hashSeed>>

\* context.set_horizon(horizon)
SetHorizon ==
  /\ \E h \in Horizons : h # horizon /\ horizon' = h
  /\ op' = "set_context"
  /\ UNCHANGED parserVars
  /\ ret' = ResNone
  /\ rebuilt' = EmptyOverlay
  /\ left' = <<>>
  /\ UNCHANGED <<scopes, entered>>
  /\ UNCHANGED <<prop, written, scenario_priority, hashSeed>>

\* prop.get_value()
GetValue ==
  /\ LET r == get_value(prop, scenario_priority, horizon)
     IN prop' = r.after /\ ret' = r.ret
  /\ op' = "get_value"
  /\ UNCHANGED parserVars
  /\ rebuilt' = EmptyOverlay
  /\ UNCHANGED scopeVars
  /\ UNCHANGED <<written, scenario_priority, horizon, hashSeed>>

Next == AddEntry \/ SetScenarioPriority \/ SetHorizon \/ GetValue

Spec == Init /\ [][Next]_vars

\* ====================================================================
\* Claims checked under Spec
\* ====================================================================
\* positions of the entries get_value resolves over: all of them, or under a
\* horizon those without dates or with an overlapping date range
Survives(k, h) ==
  \/ (k.date_from = NoDate /\ k.date_to = NoDate)
  \/ /\ (IF k.date_from = NoDate THEN DateFloor ELSE k.date_from) <= h.to
     /\ (IF k.date_to = NoDate THEN DateCeil ELSE k.date_to) >= h.from
Visible ==
  {i \in 1..Len(prop.entries) : horizon.isNone \/ Survives(prop.entries[i].key, horizon)}
SimpleAt(i) ==
  LET k == prop.entries[i].key
  IN k.band = 1 /\ k.timeslice = NoneStr /\ k.date_from = NoDate /\ k.date_to = NoDate
\* the candidates of priority resolution
RankedCandidates ==
  IF \E i \in Visible : SimpleAt(i) THEN {i \in Visible : SimpleAt(i)} ELSE Visible
MappedCandidates ==
  {i \in RankedCandidates : prop.entries[i].key.scenario \in DOMAIN scenario_priority.map}
BestMapped ==
  {i \in MappedCandidates :
     \A j \in MappedCandidates :
       scenario_priority.map[prop.entries[i].key.scenario]
         <= scenario_priority.map[prop.entries[j].key.scenario]}

KeysOfProp == Keys(prop.entries)
Named(s) == s # NoneStr /\ s # ""
ScenariosPresent == {k.scenario : k \in {x \in KeysOfProp : Named(x.scenario)}}
TimeslicesPresent == {k.timeslice : k \in {x \in KeysOfProp : Named(x.timeslice)}}
BandsPresent == {k.band : k \in KeysOfProp}
NonScenarioTimeslices ==
  {k.timeslice : k \in {x \in KeysOfProp : x.scenario = NoneStr /\ x.timeslice # NoneStr}}
NonScenarioOtherBand == \E k \in KeysOfProp : k.scenario = NoneStr /\ k.band # 1
\* the pure default: the entry with band 1 and no other dimension
PureDefaultKey ==
  PLEXOSPropertyKey(NoneStr, 1, NoneStr, NoDate, NoDate, NoId, NoneStr, NoneStr, NoneStr)
Lookup(scenario, band, timeslice) ==
  get_value_for(prop, scenario, band, timeslice, NoDate, NoDate)
\* steps (a)-(g), the first matching step wins; step (e) returns a dict for a
\* single timeslice too unless unwrapSingle
DecisionSequence(unwrapSingle) ==
  IF PureDefaultKey \in KeysOfProp /\ Len(prop.entries) > 1
     /\ (ScenariosPresent # {} \/ TimeslicesPresent # {})
    THEN ResScalar(RowAt(prop.entries, PureDefaultKey).value)
  ELSE IF ScenariosPresent # {} /\ NonScenarioTimeslices # {}
    THEN ResStrDict([t \in NonScenarioTimeslices |-> Lookup(NoneStr, 1, t)])
  ELSE IF ScenariosPresent # {} /\ NonScenarioOtherBand
    THEN ResScalar(Lookup(NoneStr, 1, NoneStr))
  ELSE IF ScenariosPresent # {}
    THEN IF Cardinality(ScenariosPresent) = 1
            /\ \A k \in KeysOfProp : k.scenario \in ScenariosPresent
         THEN LET s == CHOOSE x \in ScenariosPresent : TRUE
              IN IF Cardinality(BandsPresent) > 1
                 THEN ResStrDict([x \in {s} |-> Lookup(s, 1, NoneStr)])
                 ELSE ResScalar(Lookup(s, 1, NoneStr))
         ELSE ResStrDict([s \in ScenariosPresent |-> Lookup(s, 1, NoneStr)])
  ELSE IF TimeslicesPresent # {}
    THEN IF unwrapSingle /\ Cardinality(TimeslicesPresent) = 1
         THEN ResScalar(Lookup(NoneStr, 1, CHOOSE t \in TimeslicesPresent : TRUE))
         ELSE ResStrDict([t \in TimeslicesPresent |-> Lookup(NoneStr, 1, t)])
  ELSE IF Cardinality(BandsPresent) > 1
    THEN ResIntDict([b \in BandsPresent |-> Lookup(NoneStr, b, NoneStr)])
  ELSE ResScalar(Lookup(NoneStr, 1, NoneStr))
PlainGet ==
  /\ op = "get_value" /\ ~PriorityActive(scenario_priority) /\ horizon.isNone
  /\ Len(prop.entries) > 0

\* C2: with no priority map and no horizon, get_value() on a non-empty overlay
\* returns what the decision sequence (a)-(g) yields at its first matching
\* step, where the pure default of step (a) is the entry with band 1 and no
\* scenario, timeslice, dates or other key field, and step (e) yields the
\* single value when exactly one timeslice is present and a dict over the
\* timeslices otherwise.
C2_DecisionSequence == PlainGet => ret = DecisionSequence(TRUE)

\* C2 as stated: any entry with no scenario, band 1 and no timeslice is a pure
\* default for step (a), and step (e) yields a dict over the timeslices in
\* every case
DefaultsAsStated ==
  {i \in 1..Len(prop.entries) :
     LET k == prop.entries[i].key
     IN k.scenario = NoneStr /\ k.band = 1 /\ k.timeslice = NoneStr}
C2_AsStated ==
  PlainGet =>
    IF DefaultsAsStated # {} /\ Len(prop.entries) > 1
       /\ (ScenariosPresent # {} \/ TimeslicesPresent # {})
    THEN \E i \in DefaultsAsStated : ret = ResScalar(prop.entries[i].row.value)
    ELSE ret = DecisionSequence(FALSE)

\* C2 witness: a scenario entry comes first, the pure default second, and
\* step (a) returns the pure default's value
C2_Witness ==
  /\ PlainGet /\ Len(prop.entries) = 2
  /\ prop.entries[1].key.scenario # NoneStr
  /\ prop.entries[2].key = PureDefaultKey
  /\ ret = ResScalar(prop.entries[2].row.value)

\* the values a result carries
ReturnedValues(r) ==
  IF r.kind = "scalar" THEN {r.val}
  ELSE {r.sdict[x] : x \in DOMAIN r.sdict} \cup {r.bdict[x] : x \in DOMAIN r.bdict}
Dated(k) == k.date_from # NoDate \/ k.date_to # NoDate

\* C3: under a horizon, get_value() never returns the value of an entry whose
\* dates do not overlap the horizon, whatever the priority of its scenario:
\* the horizon filter runs before priority resolution.
C3_HorizonBeforePriority ==
  (op = "get_value" /\ ~horizon.isNone)
    => \A i \in 1..Len(prop.entries) :
         (Dated(prop.entries[i].key) /\ ~Survives(prop.entries[i].key, horizon))
           => prop.entries[i].row.value \notin ReturnedValues(ret)

\* C3 witness: the entry whose scenario has the best priority lies outside the
\* horizon, and the value comes from a dated entry of worse priority inside it
C3_Witness ==
  /\ op = "get_value" /\ ~horizon.isNone /\ PriorityActive(scenario_priority)
  /\ Len(prop.entries) = 2
  /\ \A i \in {1, 2} : prop.entries[i].key.scenario \in DOMAIN scenario_priority.map
  /\ scenario_priority.map[prop.entries[1].key.scenario]
       < scenario_priority.map[prop.entries[2].key.scenario]
  /\ Dated(prop.entries[1].key) /\ ~Survives(prop.entries[1].key, horizon)
  /\ Dated(prop.entries[2].key) /\ Survives(prop.entries[2].key, horizon)
  /\ ret = ResScalar(prop.entries[2].row.value)

\* C4: a get_value() call leaves the entries and the six indexes as they were
\* before the call, and a second call under the same context returns the same
\* result.
C4_GetValuePure ==
  [][(op' = "get_value") => (prop' = prop /\ (op = "get_value" => ret' = ret))]_vars

\* C4 witness: get_value() has run under a horizon that filtered one entry out
\* and kept another, and the filtered-out entry is still stored and indexed
C4_Witness ==
  /\ op = "get_value" /\ ~horizon.isNone /\ Len(prop.entries) = 2
  /\ ~Survives(prop.entries[1].key, horizon)
  /\ Survives(prop.entries[2].key, horizon)
  /\ ret = ResScalar(prop.entries[2].row.value)
  /\ LET k == prop.entries[1].key
     IN /\ <<k.date_from, k.date_to>> \in DOMAIN prop.by_date
        /\ k \in prop.by_date[<<k.date_from, k.date_to>>]
        /\ k \in prop.by_band[k.band]

\* the entries that survive the horizon, in insertion order
Survivors == SelectSeq(prop.entries, LAMBDA e : Survives(e.key, horizon))

\* C7: under a horizon [from, to], get_value() resolves over exactly the
\* entries with no dates or with a date range overlapping the horizon
\* inclusively (a missing start is the earliest date, a missing end the
\* latest), and returns null when no entry survives.
C7_HorizonSurvivors ==
  (op = "get_value" /\ ~horizon.isNone)
    => ret = IF Len(Survivors) = 0 THEN ResNone
             ELSE resolve_value(rebuild_indexes([EmptyOverlay EXCEPT !.entries = Survivors]),
                                scenario_priority)

\* C7 witness: an entry that ends on the first day of the horizon survives and
\* supplies the value, while an entry that ends before that day is left out
C7_Witness ==
  /\ op = "get_value" /\ ~horizon.isNone /\ Len(prop.entries) = 2
  /\ prop.entries[1].key.date_to # NoDate /\ prop.entries[1].key.date_to < horizon.from
  /\ prop.entries[2].key.date_to = horizon.from
  /\ ret = ResScalar(prop.entries[2].row.value)

\* the mapped candidates whose scenario has the largest priority number
LargestMapped ==
  {i \in MappedCandidates :
     \A j \in MappedCandidates :
       scenario_priority.map[prop.entries[i].key.scenario]
         >= scenario_priority.map[prop.entries[j].key.scenario]}
\* get_value ran under a priority map over several candidates, each with a
\* scenario of the map
SeveralAllMapped ==
  /\ op = "get_value"
  /\ PriorityActive(scenario_priority)
  /\ Cardinality(RankedCandidates) >= 2
  /\ MappedCandidates = RankedCandidates

MultiBandNoScenario ==
  /\ op = "get_value"
  /\ PriorityActive(scenario_priority)
  /\ horizon.isNone
  /\ \A k \in KeysOfProp : k.scenario = NoneStr
  /\ Cardinality(BandsPresent) > 1

\* C16: when a scenario-priority map is active but no entry of the overlay
\* carries a scenario, a multi-band overlay resolves exactly as it does
\* without a priority map: get_value() returns the dict {band: value} holding
\* every band (for an overlay without timeslices), not the value of one band.
C16_MultiBandIgnoresPriority ==
  MultiBandNoScenario =>
    /\ ret = get_value(prop, NoPriority, NoHorizon).ret
    /\ TimeslicesPresent = {} =>
         /\ ret.kind = "dict"
         /\ DOMAIN ret.bdict = BandsPresent

\* get_value returned the value of entry i (every entry has its own value)
ReturnedEntry(i) == ret.kind = "scalar" /\ ret.val = prop.entries[i].row.value
ScenarioAt(i) == prop.entries[i].key.scenario

\* C18: with a priority map active, an entry with no scenario ranks last:
\* whenever the overlay also holds an entry tagged with a scenario, in the map
\* or not, get_value() does not return the value of a no-scenario entry.
C18_NoScenarioRanksLast ==
  (/\ op = "get_value"
   /\ PriorityActive(scenario_priority)
   /\ \E j \in Visible : ScenarioAt(j) # NoneStr)
    => \A i \in Visible : ScenarioAt(i) = NoneStr => ~ReturnedEntry(i)

\* C19: with a priority map active, a candidate whose scenario is absent from
\* the map ranks strictly between the two other classes, whatever the order
\* of insertion: when a candidate with a mapped scenario exists, the value
\* returned is not that of a candidate with an unmapped scenario; when a
\* candidate with an unmapped scenario exists, the value returned is not that
\* of a candidate without a scenario.
C19_UnmappedRanksBetween ==
  (op = "get_value" /\ PriorityActive(scenario_priority)) =>
    LET unmapped == {i \in RankedCandidates :
                       /\ ScenarioAt(i) # NoneStr
                       /\ ScenarioAt(i) \notin DOMAIN scenario_priority.map}
        unscoped == {i \in RankedCandidates : ScenarioAt(i) = NoneStr}
    IN /\ MappedCandidates # {} => \A i \in unmapped : ~ReturnedEntry(i)
       /\ unmapped # {} => \A i \in unscoped : ~ReturnedEntry(i)

\* the scenarios of the stored entries
StoredScenarios == {ScenarioAt(i) : i \in 1..Len(prop.entries)} \ {NoneStr}
\* the result r is the value of an entry of scenario s
SuppliedBy(r, s) ==
  /\ r.kind = "scalar"
  /\ \E i \in 1..Len(prop.entries) : ScenarioAt(i) = s /\ r.val = prop.entries[i].row.value
\* the maps that differ from pmap only by a smaller number for s; a scenario
\* the map does not hold ranks behind every number, so any number is smaller
Lowered(pmap, s) ==
  {[x \in DOMAIN pmap \cup {s} |-> IF x = s THEN n ELSE pmap[x]] :
     n \in {m \in 0..2 : s \in DOMAIN pmap => m < pmap[s]}}

\* C26: priority resolution is monotonic: for a fixed overlay, if scenario s
\* supplies the result of get_value() under priority map P, then s still
\* supplies the result under any map P' that differs from P only by giving s
\* a smaller priority number.
C26_Monotonic ==
  (op = "get_value" /\ ~scenario_priority.isNone) =>
    \A s \in StoredScenarios :
      SuppliedBy(ret, s) =>
        \A lower \in Lowered(scenario_priority.map, s) :
          SuppliedBy(get_value(prop, SomePriority(lower), horizon).ret, s)

\* C26 witness: get_value ran under a map in which the winning scenario ties
\* with the scenario of another candidate, and the map holds a number for the
\* winner that can be lowered
C26_Witness ==
  /\ op = "get_value" /\ PriorityActive(scenario_priority)
  /\ \E i, j \in RankedCandidates :
       /\ ReturnedEntry(i)
       /\ ScenarioAt(i) \in DOMAIN scenario_priority.map
       /\ ScenarioAt(j) \in DOMAIN scenario_priority.map
       /\ ScenarioAt(j) # ScenarioAt(i)
       /\ scenario_priority.map[ScenarioAt(i)] = scenario_priority.map[ScenarioAt(j)]
       /\ Lowered(scenario_priority.map, ScenarioAt(i)) # {}

\* the overlay that add_entry calls with the arguments args, in this order,
\* build
RECURSIVE BuiltInOrder(_)
BuiltInOrder(args) ==
  IF args = <<>> THEN EmptyOverlay
  ELSE add_entry(BuiltInOrder(SubSeq(args, 1, Len(args) - 1)), args[Len(args)])
\* the orders in which the writes so far can be made
Orders == {f \in [1..Len(written) -> 1..Len(written)] :
             \A i, j \in 1..Len(written) : f[i] = f[j] => i = j}
\* no write replaced an earlier one, so every order of the writes stores the
\* same key-to-entry map
DistinctKeysWritten == Len(prop.entries) = Len(written)

\* C28: resolution depends only on the set of stored entries, not on the
\* order in which they were inserted: two overlays holding the same
\* key-to-entry map, built by add_entry calls in different orders, return the
\* same get_value() result under every priority map and horizon, including
\* when several candidate scenarios share a priority number or are all absent
\* from the map.
C28_InsertionOrderIrrelevant ==
  (op = "get_value" /\ DistinctKeysWritten) =>
    \A f \in Orders :
      get_value(BuiltInOrder([i \in 1..Len(written) |-> written[f[i]]]),
                scenario_priority, horizon).ret = ret

\* ====================================================================
\* SpecLookup: get_value_for called with every combination of dimensions
\* on the overlays add_entry builds
\* ====================================================================
\* the dimensions a caller asks for: no scenario or one, no timeslice or
\* one, no dates or a range, over overlays that hold every scenario,
\* timeslice and range
LookupScenarios == {NoneStr, "s1"}
LookupTimeslices == {NoneStr, "t1"}
LookupDateRanges == {<<NoDate, NoDate>>, <<1, 2>>}

\* prop.get_value_for(scenario, band, timeslice, date_from, date_to); the
\* call writes nothing, so it is made once after each write: a second call
\* would see the overlay the first saw
GetValueFor ==
  /\ op # "get_value_for"
  /\ \E sc \in LookupScenarios, b \in Bands, ts \in LookupTimeslices,
        d \in LookupDateRanges :
       /\ ret' = ResScalar(get_value_for(prop, sc, b, ts, d[1], d[2]))
       /\ attempt' = <<[scenario |-> sc, band |-> b, timeslice |-> ts,
                        date_from |-> d[1], date_to |-> d[2]]>>
  /\ op' = "get_value_for"
  /\ UNCHANGED <<parser, system, calls, inputs, pending, passes, tried>>
  /\ UNCHANGED <<prop, written, rebuilt, scopes, entered, left, scenario_priority,
                 horizon, hashSeed>>

NextLookup == AddEntry \/ GetValueFor

SpecLookup == Init /\ [][NextLookup]_vars

\* ====================================================================
\* Claims checked under SpecLookup
\* ====================================================================
\* the dimensions the last call asked for
Asked == attempt[1]
\* the key of the overlay that equals k, if the overlay has it
KeyIfPresent(k) == {k} \cap KeysOfProp
\* the keys of T that come first when T is ordered by sort_key
LeastBy(T, sort_key) == {k \in T : \A j \in T : ~LexLess(sort_key[j], sort_key[k])}

\* the lookups of the sequence, each as the set of keys it can find
ExactKey ==
  KeyIfPresent(DimKey(Asked.scenario, Asked.band, Asked.timeslice,
                      Asked.date_from, Asked.date_to))
KeyWithoutDates ==
  KeyIfPresent(DimKey(Asked.scenario, Asked.band, Asked.timeslice, NoDate, NoDate))
AnyOfScenario ==
  LET T == {k \in KeysOfProp : Asked.scenario # NoneStr /\ k.scenario = Asked.scenario}
  IN LeastBy(T, [k \in T |-> ScenarioSortKey(k)])
AnyOfTimeslice ==
  LET T == {k \in KeysOfProp : Asked.timeslice # NoneStr /\ k.timeslice = Asked.timeslice}
  IN LeastBy(T, [k \in T |-> TimesliceSortKey(k)])
KeyWithoutScenario ==
  KeyIfPresent(DimKey(NoneStr, Asked.band, Asked.timeslice, NoDate, NoDate))
KeyWithoutTimeslice ==
  KeyIfPresent(DimKey(Asked.scenario, Asked.band, NoneStr, NoDate, NoDate))
BandOnlyKey == KeyIfPresent(DimKey(NoneStr, Asked.band, NoneStr, NoDate, NoDate))
AnyOfBand ==
  LET T == {k \in KeysOfProp : k.band = Asked.band}
  IN LeastBy(T, [k \in T |-> BandSortKey(k)])
FirstInserted == IF Len(prop.entries) > 0 THEN {prop.entries[1].key} ELSE {}

\* the keys found by the first lookup of the sequence that finds any
FirstFound(lookups) ==
  IF \A n \in 1..Len(lookups) : lookups[n] = {} THEN {}
  ELSE lookups[CHOOSE n \in 1..Len(lookups) :
                 lookups[n] # {} /\ \A j \in 1..(n - 1) : lookups[j] = {}]

\* get_value_for returned the value of a key found by the first successful
\* lookup of the sequence, and null exactly when the overlay is empty
FollowsSequence(lookups) ==
  op = "get_value_for" =>
    IF Len(prop.entries) = 0 THEN ret = ResNone
    ELSE /\ ret.kind = "scalar"
         /\ \E k \in FirstFound(lookups) : ret.val = RowAt(prop.entries, k).value

OneFieldInputs ==
  {[AddEntryDefaults EXCEPT !.scenario = x] : x \in {"", "s1"}}
  \cup {[AddEntryDefaults EXCEPT !.timeslice = x] : x \in {"", "t1"}}
  \cup {[AddEntryDefaults EXCEPT !.action = x] : x \in {"=", "+"}}
  \cup {[AddEntryDefaults EXCEPT !.text = x] : x \in {"", "x"}}
  \cup {[AddEntryDefaults EXCEPT !.variable_name = x] : x \in {"", "v1"}}
  \cup {AddEntryDefaults,
        [AddEntryDefaults EXCEPT !.band = 2],
        [AddEntryDefaults EXCEPT !.date_from = 1, !.date_to = 2],
        [AddEntryDefaults EXCEPT !.period_type_id = 1],
        [AddEntryDefaults EXCEPT !.datafile_name = "f.csv"],
        [AddEntryDefaults EXCEPT !.datafile_id = 1],
        [AddEntryDefaults EXCEPT !.column_name = "x"],
        [AddEntryDefaults EXCEPT !.variable_id = 1],
        [AddEntryDefaults EXCEPT !.units = "x"]}
\* and in several fields
KeyInputs ==
  OneFieldInputs
  \cup {[AddEntryDefaults EXCEPT !.scenario = "s1", !.date_to = 1],
        [AddEntryDefaults EXCEPT !.scenario = "s1", !.timeslice = "t1", !.date_from = 3],
        [AddEntryDefaults EXCEPT !.scenario = "s2", !.band = 2, !.action = "=",
                                 !.variable_name = "v1", !.text = "x"]}

\* prop.add_entry(value, ...)
AddEntryAny ==
  /\ Len(written) < MaxWrites
  /\ \E k \in KeyInputs :
       LET a == [k EXCEPT !.value = FreshValue]
       IN /\ prop' = add_entry(prop, a)
          /\ written' = Append(written, a)
  /\ op' = "add_entry"
  /\ UNCHANGED parserVars
  /\ ret' = ResNone
  /\ rebuilt' = EmptyOverlay
  /\ UNCHANGED scopeVars
  /\ UNCHANGED <<scenario_priority, horizon, hashSeed>>

\* prop.add_from_db_rows([row]): a row carries no period type
AddFromDbRows ==
  /\ Len(written) < MaxWrites
  /\ \E k \in {x \in KeyInputs : x.period_type_id = NoId} :
       LET a == [k EXCEPT !.value = FreshValue]
       IN /\ prop' = add_from_db_rows(prop, <<AddEntryRow(a)>>)
          /\ written' = Append(written, a)
  /\ op' = "add_from_db_rows"
  /\ UNCHANGED parserVars
  /\ ret' = ResNone
  /\ rebuilt' = EmptyOverlay
  /\ UNCHANGED scopeVars
  /\ UNCHANGED <<scenario_priority, horizon, hashSeed>>

\* PLEXOSPropertyValue.from_records(<the records of prop>)
RoundTrip ==
  /\ Len(prop.entries) > 0
  /\ rebuilt' = from_records(to_records(prop), NoneStr)
  /\ op' = "from_records"
  /\ UNCHANGED parserVars
  /\ ret' = ResNone
  /\ UNCHANGED <<prop, written, scenario_priority, horizon, hashSeed>>
  /\ UNCHANGED scopeVars

NextKeys ==
  AddEntryAny \/ AddFromDbRows \/ RoundTrip \/ SetScenarioPriority \/ SetHorizon \/ GetValue

SpecKeys == Init /\ [][NextKeys]_vars

\* ====================================================================
\* Claims checked under SpecKeys
\* ====================================================================
NonEmpty(s) == s # NoneStr /\ s # ""
Bucket(index, x) == IF x \in DOMAIN index THEN index[x] ELSE {}
\* every key in a bucket is stored, and every stored key is in the bucket of
\* each of its dimensions that is Present
IndexInvariant(o, absent) ==
  /\ \A x \in DOMAIN o.by_scenario : o.by_scenario[x] \subseteq Keys(o.entries)
  /\ \A x \in DOMAIN o.by_band : o.by_band[x] \subseteq Keys(o.entries)
  /\ \A x \in DOMAIN o.by_timeslice : o.by_timeslice[x] \subseteq Keys(o.entries)
  /\ \A x \in DOMAIN o.by_date : o.by_date[x] \subseteq Keys(o.entries)
  /\ \A x \in DOMAIN o.by_variable : o.by_variable[x] \subseteq Keys(o.entries)
  /\ \A x \in DOMAIN o.by_text : o.by_text[x] \subseteq Keys(o.entries)
  /\ \A k \in Keys(o.entries) :
       /\ k.scenario \notin absent => k \in Bucket(o.by_scenario, k.scenario)
       /\ k \in Bucket(o.by_band, k.band)
       /\ k.timeslice \notin absent => k \in Bucket(o.by_timeslice, k.timeslice)
       /\ (k.date_from # NoDate \/ k.date_to # NoDate)
            => k \in Bucket(o.by_date, <<k.date_from, k.date_to>>)
       /\ k.variable \notin absent => k \in Bucket(o.by_variable, k.variable)
       /\ k.text \notin absent => k \in Bucket(o.by_text, k.text)

\* what holds of the indexes after any sequence of add_entry /
\* add_from_db_rows calls interleaved with get_value() calls under any
\* context: every key in an index bucket is in entries, and every key in
\* entries is in the bucket of its band, of its date pair when either date is
\* set, and of each of its scenario, timeslice, variable and text that is
\* neither null nor empty
C6_IndexInvariant == IndexInvariant(prop, {NoneStr, ""})

\* C6: after any sequence of add_entry / add_from_db_rows calls interleaved
\* with get_value() calls under any context, every key found in a bucket of
\* an index is a key of entries, and for every key of entries each of its
\* non-null dimensions (scenario, band, timeslice, date range, variable, text)
\* has a bucket in the corresponding index that contains the key.
C6_AsStated == IndexInvariant(prop, {NoneStr})

\* the indexes after a filtered get_value(): get_value() has run under a horizon that filtered out a dated
\* scenario entry and kept another entry; the filtered-out key is back in its
\* scenario and date buckets
C6_Witness ==
  /\ op = "get_value" /\ ~horizon.isNone /\ Len(prop.entries) = 2
  /\ \E i, j \in {1, 2} :
       LET k == prop.entries[i].key
       IN /\ ~InHorizon(k, horizon) /\ InHorizon(prop.entries[j].key, horizon)
          /\ NonEmpty(k.scenario)
          /\ k \in Bucket(prop.by_scenario, k.scenario)
          /\ k \in Bucket(prop.by_date, <<k.date_from, k.date_to>>)

KeyFields(k) ==
  <<k.scenario, k.band, k.timeslice, k.date_from, k.date_to, k.period_type_id,
    k.action, k.variable, k.text>>
\* the nine key fields a write supplies
WrittenFields(a) ==
  <<a.scenario, a.band, a.timeslice, a.date_from, a.date_to, a.period_type_id,
    a.action, a.variable_name, a.text>>
ActionField == 7

\* C8: the entries are keyed by the full nine-field key: there are as many
\* entries as distinct keys written, the entry of a key holds the value of the
\* last write to that key, and so two writes that differ only in action are
\* two entries.
C8_StructuralKeys ==
  LET W == {WrittenFields(written[i]) : i \in 1..Len(written)}
  IN /\ Len(prop.entries) = Cardinality(W)
     /\ {KeyFields(k) : k \in Keys(prop.entries)} = W
     /\ \A i \in 1..Len(written) :
          (\A j \in (i + 1)..Len(written) :
             WrittenFields(written[j]) # WrittenFields(written[i]))
            => \E n \in 1..Len(prop.entries) :
                 /\ KeyFields(prop.entries[n].key) = WrittenFields(written[i])
                 /\ prop.entries[n].row.value = written[i].value

\* C8 witness: two writes that differ only in action, held as two entries
C8_Witness ==
  /\ Len(written) = 2 /\ Len(prop.entries) = 2
  /\ \A f \in 1..9 :
       (WrittenFields(written[1])[f] = WrittenFields(written[2])[f]) <=> (f # ActionField)

\* C9: an overlay rebuilt by from_records from the records of an overlay has
\* the same keys and, for each key, an entry equal in every field.
C9_RoundTripLossless ==
  (op = "from_records")
    => /\ Keys(rebuilt.entries) = Keys(prop.entries)
       /\ \A k \in Keys(prop.entries) :
            HasKey(rebuilt.entries, k) => RowAt(rebuilt.entries, k) = RowAt(prop.entries, k)

\* ====================================================================
\* SpecCtx: the ambient context under nested context-manager scopes
\* ====================================================================
ScopeKinds == {"scenario_priority", "horizon", "scenario_and_horizon"}
ScopePriorities == {SomePriority(m) : m \in {[s \in {"s1", "s2"} |-> IF s = "s1" THEN 1 ELSE 2],
                                             [s \in {"s2"} |-> 1]}}
ScopeHorizons == {SomeHorizon(2, 3), SomeHorizon(4, 4)}
\* with scenario_priority(p): / with horizon(f, t): /
\* with scenario_and_horizon(p, f, t):
Enter ==
  /\ Len(scopes) < MaxDepth
  /\ \E kind \in ScopeKinds, p \in ScopePriorities, h \in ScopeHorizons :
       /\ (kind = "horizon") => p = CHOOSE x \in ScopePriorities : TRUE
       /\ (kind = "scenario_priority") => h = CHOOSE x \in ScopeHorizons : TRUE
       /\ LET e == EnterScope(kind, p, h, scenario_priority, horizon)
          IN /\ scopes' = Append(scopes, e.scope)
             /\ scenario_priority' = e.priority
             /\ horizon' = e.horizon
             /\ entered' = Append(entered,
                  [kind |-> kind, supplied_p |-> p, supplied_h |-> h,
                   entry_p |-> scenario_priority, entry_h |-> horizon])
  /\ left' = <<>>
  /\ op' = "enter"
  /\ UNCHANGED parserVars
  /\ UNCHANGED <<prop, written, rebuilt, hashSeed, ret>>

\* the body of the innermost scope ends: by returning (exc = FALSE) or by an
\* exception that propagates out of it (exc = TRUE)
LeaveScope(exc) ==
  /\ Len(scopes) > 0
  /\ LET x == ExitScope(scopes[Len(scopes)], exc, scenario_priority, horizon)
     IN /\ scenario_priority' = x.priority
        /\ horizon' = x.horizon
  /\ scopes' = SubSeq(scopes, 1, Len(scopes) - 1)
  /\ entered' = SubSeq(entered, 1, Len(entered) - 1)
  /\ left' = <<entered[Len(entered)]>>
  /\ op' = IF exc THEN "raise" ELSE "exit"
  /\ UNCHANGED parserVars
  /\ UNCHANGED <<prop, written, rebuilt, hashSeed, ret>>

ExitNormal == LeaveScope(FALSE)
ExitException == LeaveScope(TRUE)

\* outside every scope the caller sets the ambient values directly
SetOutsideScopes == scopes = <<>> /\ (SetScenarioPriority \/ SetHorizon)

NextCtx == Enter \/ ExitNormal \/ ExitException \/ SetOutsideScopes

SpecCtx == Init /\ [][NextCtx]_vars

\* ------------------------------------------------ claims under SpecCtx
\* the innermost of the open scopes that manage a component, 0 if none does
PriorityKinds == {k \in ScopeKinds : ManagesPriority(k)}
HorizonKinds == {k \in ScopeKinds : ManagesHorizon(k)}
InnermostOpen(kinds) ==
  LET S == {i \in 1..Len(entered) : entered[i].kind \in kinds}
  IN IF S = {} THEN 0 ELSE CHOOSE i \in S : \A j \in S : j <= i
InnermostWins ==
  Len(entered) > 0 =>
    /\ scenario_priority =
         IF InnermostOpen(PriorityKinds) = 0 THEN entered[1].entry_p
         ELSE entered[InnermostOpen(PriorityKinds)].supplied_p
    /\ horizon =
         IF InnermostOpen(HorizonKinds) = 0 THEN entered[1].entry_h
         ELSE entered[InnermostOpen(HorizonKinds)].supplied_h
ExitRestores ==
  left # <<>> => scenario_priority = left[1].entry_p /\ horizon = left[1].entry_h

\* C5: over any well-nested sequence of scope entries and exits, by return or
\* by exception: while a scope is open the ambient priority and horizon are
\* those supplied by the innermost open scope that sets them, and right after a
\* scope exits they are exactly what they were when that scope was entered.
C5_ScopesNest == InnermostWins /\ ExitRestores

\* C5 witness: an inner scope nested in an outer one has been left by an
\* exception, and the ambient values are again the outer scope's, which differ
\* from the inner scope's
C5_Witness ==
  /\ op = "raise" /\ Len(entered) = 1 /\ left # <<>>
  /\ entered[1].kind = "scenario_and_horizon" /\ left[1].kind = "scenario_and_horizon"
  /\ left[1].supplied_p # entered[1].supplied_p
  /\ left[1].supplied_h # entered[1].supplied_h
  /\ scenario_priority = entered[1].supplied_p /\ horizon = entered[1].supplied_h

\* ====================================================================
\* SpecAttach: the parser registers time-series references and runs
\* build_time_series over them, once or repeatedly
\* ====================================================================
InitAttach ==
  /\ prop = EmptyOverlay
  /\ written = <<>>
  /\ rebuilt = EmptyOverlay
  /\ scopes = <<>>
  /\ entered = <<>>
  /\ left = <<>>
  /\ scenario_priority = NoPriority
  /\ horizon = NoHorizon
  /\ hashSeed = 0
  /\ op = "init"
  /\ ret = ResNone
  /\ InitParser
  /\ inputs \in Worlds

\* self.time_series_references.append(TimeSeriesReference(...))
RegisterReference ==
  /\ pending = <<>>
  /\ passes = 0
  /\ Len(parser.time_series_references) < MaxRefs
  /\ \E ref \in References :
       parser' = [parser EXCEPT !.time_series_references = Append(@, ref)]
  /\ op' = "register"
  /\ UNCHANGED <<system, calls, inputs, pending, passes, attempt, tried>>
  /\ UNCHANGED overlayVars

OfSourceType(refs, source_type) ==
  SelectSeq(refs, LAMBDA ref : ref.source_type = source_type)

\* build_time_series starts: the references are split by source type, and
\* tried in the order direct, datafile component, variable
BuildTimeSeries ==
  /\ pending = <<>>
  /\ passes < MaxPasses
  /\ parser.time_series_references # <<>>
  /\ pending' = OfSourceType(parser.time_series_references, "DIRECT_DATAFILE")
                \o OfSourceType(parser.time_series_references, "DATAFILE_COMPONENT")
                \o OfSourceType(parser.time_series_references, "VARIABLE")
  /\ passes' = passes + 1
  /\ tried' = <<>>
  /\ op' = "build_time_series"
  /\ UNCHANGED <<parser, system, calls, inputs, attempt>>
  /\ UNCHANGED overlayVars

\* the parser as the attach operations see it
ParserState == [parser |-> parser, system |-> system, calls |-> calls]

\* a loop of build_time_series whose except clause records the failure and
\* re-raises: the pass ends at the first reference that raises
TryAttach_Reraise(r) ==
  /\ parser' = IF r.err = NoError THEN r.m.parser
               ELSE [r.m.parser EXCEPT
                       !.failed_references = Append(@, <<Head(pending), r.err>>)]
  /\ system' = r.m.system
  /\ calls' = r.m.calls
  /\ attempt' = <<[ref |-> Head(pending),
                   was_attached |-> AlreadyAttached(ParserState, Head(pending))]>>
  /\ tried' = Append(tried, [ref |-> Head(pending), err |-> r.err])
  /\ pending' = IF r.err = NoError THEN Tail(pending) ELSE <<>>
  /\ op' = "attach"
  /\ UNCHANGED <<inputs, passes>>
  /\ UNCHANGED overlayVars

\* one turn of a loop of build_time_series, r being what the attach operation
\* did with the first pending reference:
\*   try: self._attach_...(ref, ...)
\*   except Exception as e: self._failed_references.append((ref, str(e)))
TryAttach(r) ==
  /\ parser' = IF r.err = NoError THEN r.m.parser
               ELSE [r.m.parser EXCEPT
                       !.failed_references = Append(@, <<Head(pending), r.err>>)]
  /\ system' = r.m.system
  /\ calls' = r.m.calls
  /\ attempt' = <<[ref |-> Head(pending),
                   was_attached |-> AlreadyAttached(ParserState, Head(pending))]>>
  /\ tried' = Append(tried, [ref |-> Head(pending), err |-> r.err])
  /\ pending' = Tail(pending)
  /\ op' = "attach"
  /\ UNCHANGED <<inputs, passes>>
  /\ UNCHANGED overlayVars

\* for ref in direct_refs
AttachDirect ==
  /\ pending # <<>>
  /\ Head(pending).source_type = "DIRECT_DATAFILE"
  /\ TryAttach(attach_direct_datafile_timeseries(ParserState, inputs, Head(pending)))

\* for ref in datafile_component_refs
AttachDatafileComponent ==
  /\ pending # <<>>
  /\ Head(pending).source_type = "DATAFILE_COMPONENT"
  /\ TryAttach(attach_datafile_component_timeseries(ParserState, inputs, Head(pending)))

\* for ref in variable_refs
AttachVariable ==
  /\ pending # <<>>
  /\ Head(pending).source_type = "VARIABLE"
  /\ TryAttach(attach_variable_timeseries(ParserState, inputs, Head(pending)))

NextAttach ==
  \/ RegisterReference
  \/ BuildTimeSeries
  \/ AttachDirect
  \/ AttachDatafileComponent
  \/ AttachVariable

SpecAttach == InitAttach /\ [][NextAttach]_vars

\* ====================================================================
\* Claims checked under SpecAttach
\* ====================================================================
\* C10: attachment is idempotent per (component, field). Once the key
\* (component id, field name) of a reference is marked attached, an attach
\* attempt for that key, through any of the three attach operations, in the
\* same pass or a later one, looks up no component, parses no file, adds no
\* time series and changes no property overlay.
C10_AttachIdempotent ==
  [][(/\ op' = "attach"
      /\ pending # <<>>
      /\ <<Head(pending).component_uuid, Head(pending).field_name>>
           \in parser.attached_timeseries)
     => (/\ calls' = calls
         /\ system'.time_series = system.time_series
         /\ system'.properties = system.properties
         /\ system'.collection_properties = system.collection_properties)]_vars

\* a second pass has tried a reference whose key the first pass attached
\* together with a time series
C10_Witness ==
  /\ op = "attach"
  /\ passes = MaxPasses
  /\ attempt # <<>>
  /\ attempt[1].was_attached
  /\ system.time_series # <<>>
  /\ calls.parses > 0

\* how many elements of the sequence refs equal ref
CountOf(refs, ref) == Cardinality({i \in 1..Len(refs) : refs[i] = ref})

\* the references tried so far in the running pass
TriedRefs == [i \in 1..Len(tried) |-> tried[i].ref]

\* a pass of build_time_series is over: it has started and nothing is pending
PassOver == passes > 0 /\ pending = <<>>

\* C11: build_time_series is a best-effort batch. When a pass is over, every
\* registered reference has been attempted exactly once in it, whatever the
\* attempts of the other references raised; during the pass no reference is
\* attempted more often than it is registered; and each reference whose
\* attempt raised is in the failure list together with its error text.
C11_BestEffortBatch ==
  /\ \A ref \in References :
        /\ CountOf(TriedRefs, ref) <= CountOf(parser.time_series_references, ref)
        /\ PassOver =>
             CountOf(TriedRefs, ref) = CountOf(parser.time_series_references, ref)
  /\ \A i \in 1..Len(tried) :
        tried[i].err # NoError =>
          \E j \in 1..Len(parser.failed_references) :
            parser.failed_references[j] = <<tried[i].ref, tried[i].err>>

\* a pass is over in which the first attempt raised and a later attempt,
\* of another reference, attached a time series
C11_Witness ==
  /\ PassOver
  /\ Len(tried) = MaxRefs
  /\ tried[1].err # NoError
  /\ tried[2].err = NoError
  /\ tried[2].ref # tried[1].ref
  /\ system.time_series # <<>>
  /\ Len(parser.failed_references) = 1

\* the overlays a reference points at: the component's own property, or the
\* property of the collection-properties record of the reference's
\* membership (none when the system has no such property)
TargetProperties(sys, ref) ==
  IF ref.is_collection_property
  THEN LET t == <<ref.component_uuid, ref.membership_id>>
       IN IF t \in DOMAIN sys.collection_properties
             /\ ref.field_name \in DOMAIN sys.collection_properties[t]
          THEN {sys.collection_properties[t][ref.field_name]} ELSE {}
  ELSE LET t == <<ref.component_uuid, ref.field_name>>
       IN IF t \in DOMAIN sys.properties THEN {sys.properties[t]} ELSE {}

\* the values of a series
DistinctValues(d) == {d[i] : i \in 1..Len(d)}

\* the data the file of a direct-datafile reference holds for the
\* reference's component: its entry under the component's name, else the
\* file's only entry
ResolvedOf(ref) ==
  LET contents == inputs.files[ref.datafile_path].contents
  IN IF ref.component_name \in DOMAIN contents THEN contents[ref.component_name]
     ELSE contents[CHOOSE n \in DOMAIN contents : TRUE]

\* the step is an attach step of a direct-datafile reference that was not
\* attached before, did not raise, and resolved a time series
DirectSeriesStep ==
  /\ op' = "attach"
  /\ pending # <<>>
  /\ Head(pending).source_type = "DIRECT_DATAFILE"
  /\ ~AlreadyAttached(ParserState, Head(pending))
  /\ tried'[Len(tried')].err = NoError
  /\ ResolvedOf(Head(pending)).kind = "series"

FileMissing(ref) ==
  CASE ref.source_type = "DIRECT_DATAFILE" -> ~FileExists(inputs, ref.datafile_path)
    [] ref.source_type = "DATAFILE_COMPONENT" ->
         /\ ref.datafile_component_name \in DOMAIN inputs.datafiles
         /\ IsCsv(inputs.datafiles[ref.datafile_component_name])
         /\ ~FileExists(inputs, inputs.datafiles[ref.datafile_component_name])
    [] OTHER ->
         /\ ref.variable_name \in DOMAIN inputs.variables
         /\ Len(inputs.variables[ref.variable_name].entries) > 0
         /\ LET first_entry == inputs.variables[ref.variable_name].entries[1].row
            IN /\ TruthyStr(first_entry.datafile_name)
               /\ ~FileExists(inputs, BandFilePath(inputs, first_entry.datafile_name))

\* the system does not hold the component of the reference
ComponentMissing(ref) == ref.component_uuid \notin inputs.components

\* the variable of a variable reference has no profile to resolve: the
\* system has no such variable, or its profile has no entry, or its only
\* entry has neither a file nor a value
NoResolvableProfile(ref) ==
  /\ ref.source_type = "VARIABLE"
  /\ \/ ref.variable_name \notin DOMAIN inputs.variables
     \/ Len(inputs.variables[ref.variable_name].entries) = 0
     \/ LET first_entry == inputs.variables[ref.variable_name].entries[1].row
        IN ~TruthyStr(first_entry.datafile_name) /\ first_entry.value = NoValue

\* the step is an attach step of a reference whose key was not attached
AttachStep ==
  /\ op' = "attach"
  /\ pending # <<>>
  /\ ~AlreadyAttached(ParserState, Head(pending))

\* what the step wrote: a property overlay changed or a time series was added
DataWritten == system' # system

\* C21: every reference whose attachment does not succeed, because its file
\* is missing, its component is missing, or its variable has no resolvable
\* profile, is recorded in the failure list with the reference and the error
\* text, and its (component, field) key is not marked attached; conversely a
\* key is marked attached only after data for it was actually written.
C21_FailuresRecorded ==
  [][AttachStep =>
       LET ref == Head(pending)
           key == <<ref.component_uuid, ref.field_name>>
       IN /\ (FileMissing(ref) \/ ComponentMissing(ref) \/ NoResolvableProfile(ref)) =>
               /\ Len(parser'.failed_references) = Len(parser.failed_references) + 1
               /\ parser'.failed_references[Len(parser'.failed_references)][1] = ref
               /\ parser'.failed_references[Len(parser'.failed_references)][2] # NoError
               /\ key \notin parser'.attached_timeseries
          /\ key \in parser'.attached_timeseries => DataWritten]_vars

\* the file paths the cache holds
CachedPaths(p) == DOMAIN p.parsed_files_cache

\* C23: within one parser run each resolved file path is parsed at most once.
\* A step parses a file only when its path is not in the cache, and stores
\* what it parsed under that path, so every later reference to the path, from
\* any attach operation, is served from the cache without parsing; and a
\* cache entry, once written, is never removed or replaced.
C23_ParsedAtMostOnce ==
  [][/\ calls'.parses - calls.parses
          = Cardinality(CachedPaths(parser') \ CachedPaths(parser))
     /\ \A path \in CachedPaths(parser) :
          /\ path \in CachedPaths(parser')
          /\ parser'.parsed_files_cache[path] = parser.parsed_files_cache[path]]_vars

\* overlay n is overlay o with nothing changed but the values of entries:
\* the same keys in the same order, the same indexes and metadata, and each
\* entry the old entry but for its value
OnlyValuesReplaced(o, n) ==
  /\ n.units = o.units /\ n.action = o.action
  /\ n.by_scenario = o.by_scenario /\ n.by_band = o.by_band
  /\ n.by_timeslice = o.by_timeslice /\ n.by_date = o.by_date
  /\ n.by_variable = o.by_variable /\ n.by_text = o.by_text
  /\ Len(n.entries) = Len(o.entries)
  /\ \A i \in 1..Len(o.entries) :
       /\ n.entries[i].key = o.entries[i].key
       /\ [n.entries[i].row EXCEPT !.value = o.entries[i].row.value] = o.entries[i].row

\* the file a reference reads for its data
PathOf(ref) ==
  CASE ref.source_type = "DIRECT_DATAFILE" -> ref.datafile_path
    [] ref.source_type = "DATAFILE_COMPONENT" -> inputs.datafiles[ref.datafile_component_name]
    [] OTHER -> BandFilePath(inputs, inputs.variables[ref.variable_name].entries[1].row.datafile_name)

\* the constant a reference resolves to when no series is attached for it:
\* the value of the variable's profile when the profile names no file, else
\* the constant the file holds for the component (as a number or as a series
\* of identical values), times the profile's value for a profile without band
ConstantOf(ref) ==
  LET profile == inputs.variables[ref.variable_name].entries[1].row
      contents == inputs.files[PathOf(ref)].contents
      data == IF ref.component_name \in DOMAIN contents THEN contents[ref.component_name]
              ELSE contents[CHOOSE n \in DOMAIN contents : TRUE]
  IN IF ref.source_type = "VARIABLE" /\ ~TruthyStr(profile.datafile_name)
       THEN profile.value
     ELSE IF ref.source_type = "VARIABLE"
       THEN (IF IsConstantSeries(data.data) THEN data.data[1] ELSE SeqMax(data.data))
              * profile.value
     ELSE data.data[1]

\* the largest value of the time series the step attached
MaxAttached ==
  LET added == {i \in (Len(system.time_series) + 1)..Len(system'.time_series) : TRUE}
  IN SetMax(UNION {DistinctValues(system'.time_series[i].data) : i \in added})

\* the step is an attach step that did not raise
SuccessfulAttachStep ==
  /\ op' = "attach"
  /\ pending # <<>>
  /\ tried'[Len(tried')].err = NoError

TargetOf(ref) ==
  <<ref.component_uuid, ref.field_name, ref.is_collection_property, ref.membership_id>>

\* C29: the dedup key separates distinct attachment targets. Two registered
\* references that target different overlays (the same field of one child
\* under two memberships, or a collection property and the component's own
\* property of the same field name) are each resolved and each update their
\* own overlay: in a pass, a reference is skipped as already attached only
\* when a reference to the same target was attached before it.
C29_DedupSeparatesTargets ==
  [][(/\ op' = "attach"
      /\ pending # <<>>
      /\ passes = 1
      /\ AlreadyAttached(ParserState, Head(pending)))
     => \E i \in 1..Len(tried) :
          /\ tried[i].err = NoError
          /\ TargetOf(tried[i].ref) = TargetOf(Head(pending))]_vars

\* ====================================================================
\* SpecParse: _get_or_parse_timeseries called on the files that exist, for
\* names the file has and names it does not have, first and repeated calls
\* ====================================================================
\* the component names a caller asks for
ComponentNames == {"c1", "c2", "c3"}
ExistingFiles == {f \in DOMAIN inputs.files : inputs.files[f].exists}

\* self._get_or_parse_timeseries(file_path, component_name, ...)
GetOrParse ==
  /\ \E file_path \in ExistingFiles, component_name \in ComponentNames :
       LET got == get_or_parse_timeseries(ParserState, inputs, file_path, component_name)
       IN /\ parser' = got.m.parser
          /\ system' = got.m.system
          /\ calls' = got.m.calls
          /\ ret' = IF got.err # NoError THEN Raised(got.err) ELSE Returned(got.ts)
          /\ attempt' = <<[file_path |-> file_path, component_name |-> component_name,
                           was_cached |-> file_path \in DOMAIN parser.parsed_files_cache]>>
  /\ op' = "get_or_parse_timeseries"
  /\ UNCHANGED <<inputs, pending, passes, tried>>
  /\ UNCHANGED <<prop, written, rebuilt, scopes, entered, left, scenario_priority,
                 horizon, hashSeed>>

NextParse == GetOrParse

SpecParse == InitAttach /\ [][NextParse]_vars

\* ====================================================================
\* Claims checked under SpecParse
\* ====================================================================
\* what the file of the last call holds, and whether it holds the name asked
AskedContents == inputs.files[attempt[1].file_path].contents
AskedAbsent ==
  /\ op = "get_or_parse_timeseries"
  /\ attempt[1].component_name \notin DOMAIN AskedContents

ActionStrings == ActionMapKeys \cup {NoneStr, "", "invalid"}
ActionNumbers == -1..2
ActionSeries == {<<0>>, <<1, 2>>, <<2, 2, -1>>}
ActionInputs ==
  [base_value : ActionNumbers, value : ActionNumbers,
   action : ActionStrings, data : ActionSeries]

InitAction ==
  /\ prop = EmptyOverlay
  /\ written = <<>>
  /\ rebuilt = EmptyOverlay
  /\ scopes = <<>>
  /\ entered = <<>>
  /\ left = <<>>
  /\ scenario_priority = NoPriority
  /\ horizon = NoHorizon
  /\ hashSeed = 0
  /\ op = "init"
  /\ ret = ResNone
  /\ InitParser
  /\ inputs \in ActionInputs

\* apply_action(base_value, new_value, action)
ApplyAction ==
  /\ ret' = apply_action(inputs.base_value, inputs.value, inputs.action)
  /\ op' = "apply_action"
  /\ UNCHANGED parserVars
  /\ UNCHANGED <<prop, written, rebuilt, scopes, entered, left, scenario_priority,
                 horizon, hashSeed>>

\* apply_action_to_timeseries(ts, action, value)
ApplyActionToTimeseries ==
  /\ ret' = apply_action_to_timeseries(inputs.data, inputs.action, inputs.value)
  /\ op' = "apply_action_to_timeseries"
  /\ UNCHANGED parserVars
  /\ UNCHANGED <<prop, written, rebuilt, scopes, entered, left, scenario_priority,
                 horizon, hashSeed>>

NextAction ==
  \/ ApplyAction
  \/ ApplyActionToTimeseries

SpecAction == InitAction /\ [][NextAction]_vars

\* ====================================================================
\* Claims checked under SpecAction
\* ====================================================================
\* the call applied an operator that must raise: a division by exactly
\* zero, or a string that is none of the recognised operators
DivisionByZero == inputs.action = "/" /\ inputs.value = 0
Unrecognised == inputs.action \notin ActionMapKeys
MustRaise == DivisionByZero \/ Unrecognised

ChildObject == 1
ParentObjects == {2, 3}
\* the names CollectionEnum has
CollectionEnumNames == {"Generators", "Regions"}

\* a row of t_membership, its collection as get_collection_name gives it
MembershipRow(membership_id, parent_object_id, child_object_id, collection_name) ==
  [membership_id |-> membership_id, parent_object_id |-> parent_object_id,
   child_object_id |-> child_object_id, collection_name |-> collection_name]

\* a row of db.iterate_properties() of a collection property; membership is
\* the membership the database holds the row under, which the parser does
\* not read
PropertyRow(parent_id, membership, property, value, variable_name) ==
  [object_id |-> ChildObject, parent_class |-> "Region", parent_id |-> parent_id,
   membership |-> membership, property |-> property, value |-> value,
   scenario |-> NoneStr, band |-> 1, timeslice |-> NoneStr, time_slice |-> NoneStr,
   date_from |-> NoDate, date_to |-> NoDate, variable_name |-> variable_name,
   variable |-> NoneStr, text |-> NoneStr, action |-> "=", units |-> NoneStr]

\* utils_parser.to_snake_case on the property names of the model
to_snake_case(name) ==
  CASE name = "Load Risk" -> "load_risk"
    [] name = "Max Capacity" -> "max_capacity"
    [] OTHER -> name

\* PLEXOSMembership(membership_id, parent_object, child_object, collection)
PLEXOSMembership(row) ==
  [membership_id |-> row.membership_id, parent_object |-> row.parent_object_id,
   child_object |-> row.child_object_id, collection |-> row.collection_name]

\* _add_memberships: the memberships of the rows whose collection the enum
\* has and whose parent and child are components, in the order of the rows
add_memberships(component_cache, rows) ==
  LET kept == SelectSeq(rows, LAMBDA row :
                /\ row.collection_name # NoneStr
                /\ row.collection_name \in CollectionEnumNames
                /\ row.parent_object_id \in component_cache
                /\ row.child_object_id \in component_cache)
  IN [i \in 1..Len(kept) |-> PLEXOSMembership(kept[i])]

\* system.get_supplemental_attributes_with_component(component, PLEXOSMembership):
\* a membership is attached to its child and to its parent
MembershipsOf(memberships, component) ==
  SelectSeq(memberships, LAMBDA mem :
    mem.child_object = component \/ mem.parent_object = component)

\* the key _add_collection_properties groups a row under
ParentKey(prop_row) == <<prop_row.parent_class, prop_row.parent_id>>
HasParentKey(prop_row) == TruthyStr(prop_row.parent_class) /\ prop_row.parent_id # 0

\* the keys of props_by_parent_and_collection, in insertion order
ParentKeys(coll_props_list) ==
  LET firsts == SelectSeq([i \in 1..Len(coll_props_list) |-> i], LAMBDA i :
                  /\ HasParentKey(coll_props_list[i])
                  /\ \A j \in 1..(i - 1) :
                       ~(HasParentKey(coll_props_list[j])
                         /\ ParentKey(coll_props_list[j]) = ParentKey(coll_props_list[i])))
  IN [n \in 1..Len(firsts) |-> ParentKey(coll_props_list[firsts[n]])]

\* props_by_parent_and_collection[key]
PropsOfKey(coll_props_list, key) ==
  SelectSeq(coll_props_list, LAMBDA prop_row :
    HasParentKey(prop_row) /\ ParentKey(prop_row) = key)

\* the first membership whose parent is parent_id, if any
MatchingMembership(memberships, parent_id) ==
  SelectSeq(memberships, LAMBDA mem :
    /\ mem.parent_object = parent_id
    /\ \A i \in 1..Len(memberships) :
         (memberships[i].parent_object = parent_id /\ memberships[i] # mem)
           => \E j \in 1..(i - 1) : memberships[j] = mem)

\* the keys of properties_by_name, in insertion order
PropertyNames(props_list) ==
  LET firsts == SelectSeq([i \in 1..Len(props_list) |-> i], LAMBDA i :
                  /\ TruthyStr(props_list[i].property)
                  /\ \A j \in 1..(i - 1) : props_list[j].property # props_list[i].property)
  IN [n \in 1..Len(firsts) |-> props_list[firsts[n]].property]

\* property_values: field name -> overlay
PropertyValues(props_list) ==
  LET names == PropertyNames(props_list)
  IN [field_name \in {to_snake_case(names[n]) : n \in 1..Len(names)} |->
        LET property_name == CHOOSE x \in {names[n] : n \in 1..Len(names)} :
                               to_snake_case(x) = field_name
        IN from_records(SelectSeq(props_list,
                                  LAMBDA prop_row : prop_row.property = property_name),
                        NoneStr)]

\* property.get_variables()[0]
FirstVariable(o) ==
  CHOOSE v \in DOMAIN o.by_variable :
    \A w \in DOMAIN o.by_variable : StrRank(v) <= StrRank(w)

\* _register_collection_property_time_series_reference, for a property without
\* a datafile (from_records passes no datafile to add_entry)
register_collection_reference(refs, component, field_name, property_value, membership_id) ==
  IF ~has_datafile(property_value) /\ has_variable(property_value)
  THEN Append(refs, TimeSeriesReference(component, field_name, "VARIABLE", NoneStr,
                                        NoneStr, FirstVariable(property_value),
                                        TRUE, membership_id))
  ELSE refs

\* for property_name, prop_rows in properties_by_name.items(): register
RECURSIVE RegisterAll(_, _, _, _, _)
RegisterAll(refs, component, names, property_values, membership_id) ==
  IF names = <<>> THEN refs
  ELSE RegisterAll(
         register_collection_reference(refs, component, to_snake_case(Head(names)),
                                       property_values[to_snake_case(Head(names))],
                                       membership_id),
         component, Tail(names), property_values, membership_id)

\* CollectionProperties(membership, collection_name, properties); rows is
\* history: the database rows the properties were built from
CollectionProperties(component, membership, properties, rows) ==
  [component |-> component, membership |-> membership,
   collection_name |-> membership.collection, properties |-> properties,
   rows |-> rows]

\* for (_parent_class, parent_id_str), props_list in
\*   props_by_parent_and_collection.items(): ...
RECURSIVE AddGroups(_, _, _, _, _)
AddGroups(st, component, memberships, coll_props_list, keys) ==
  IF keys = <<>> THEN st
  ELSE
    LET props_list == PropsOfKey(coll_props_list, Head(keys))
        matching == MatchingMembership(memberships, Head(keys)[2])
        property_values == PropertyValues(props_list)
        turn ==
          IF matching = <<>> THEN st
          ELSE [refs |-> RegisterAll(st.refs, component, PropertyNames(props_list),
                                     property_values, matching[1].membership_id),
                records |-> IF DOMAIN property_values = {} THEN st.records
                            ELSE Append(st.records,
                                        CollectionProperties(component, matching[1],
                                                             property_values, props_list))]
    IN AddGroups(turn, component, memberships, coll_props_list, Tail(keys))

\* _add_collection_properties; the cache holds the rows of the child object
add_collection_properties(refs, component_cache, memberships, coll_props_list) ==
  LET component == ChildObject
      mine == MembershipsOf(memberships, component)
      start == [refs |-> refs, records |-> <<>>]
  IN IF coll_props_list = <<>> \/ component \notin component_cache \/ mine = <<>>
     THEN start
     ELSE AddGroups(start, component, mine, coll_props_list, ParentKeys(coll_props_list))

\* ---------------------------------------------------- the database read
\* number of rows of t_membership
MaxMemberships == 2
\* number of collection-property rows of the child object
MaxPropertyRows == 2

\* the memberships the database can hold: the child under parent 2 in two
\* collections, under parent 3, and under parent 3 in a collection the
\* enum does not have
MembershipRows ==
  { MembershipRow(1, 2, ChildObject, "Generators"),
    MembershipRow(2, 2, ChildObject, "Regions"),
    MembershipRow(3, 3, ChildObject, "Regions"),
    MembershipRow(4, 3, ChildObject, "Zones") }
\* the collection-property rows the database can hold for the child
PropertyRows ==
  { PropertyRow(2, 1, "Load Risk", 6, NoneStr),
    PropertyRow(2, 2, "Load Risk", 7, NoneStr),
    PropertyRow(3, 3, "Max Capacity", 8, "v1"),
    PropertyRow(3, 4, "Load Risk", 9, NoneStr) }

\* the sequences of at most n distinct elements of S
DistinctSeqs(S, n) ==
  { q \in UNION { [1..k -> S] : k \in 0..n } :
      \A i, j \in 1..Len(q) : i # j => q[i] # q[j] }

\* a database: every property row is held under a membership of the database
Databases ==
  { [memberships |-> ms, properties |-> ps] :
      ms \in DistinctSeqs(MembershipRows, MaxMemberships),
      ps \in DistinctSeqs(PropertyRows, MaxPropertyRows) }
ConsistentDatabases ==
  { db \in Databases :
      \A i \in 1..Len(db.properties) :
        \E j \in 1..Len(db.memberships) :
          /\ db.memberships[j].membership_id = db.properties[i].membership
          /\ db.memberships[j].parent_object_id = db.properties[i].parent_id }

InitMemberships ==
  /\ prop = EmptyOverlay
  /\ written = <<>>
  /\ rebuilt = EmptyOverlay
  /\ scopes = <<>>
  /\ entered = <<>>
  /\ left = <<>>
  /\ scenario_priority = NoPriority
  /\ horizon = NoHorizon
  /\ hashSeed = 0
  /\ op = "init"
  /\ ret = ResNone
  /\ inputs \in ConsistentDatabases
  /\ parser = [time_series_references |-> <<>>,
               component_cache |-> {ChildObject} \cup ParentObjects,
               collection_properties_cache |-> inputs.properties]
  /\ system = [memberships |-> <<>>, collection_properties |-> <<>>]
  /\ calls = [lookups |-> 0, parses |-> 0]
  /\ pending = <<>>
  /\ passes = 0
  /\ attempt = <<>>
  /\ tried = <<>>

\* self._add_memberships()
AddMemberships ==
  /\ op = "init"
  /\ system' = [system EXCEPT !.memberships =
                  add_memberships(parser.component_cache, inputs.memberships)]
  /\ op' = "add_memberships"
  /\ UNCHANGED <<parser, calls, inputs, pending, passes, attempt, tried>>
  /\ UNCHANGED overlayVars

\* self._add_collection_properties()
AddCollectionProperties ==
  /\ op = "add_memberships"
  /\ LET done == add_collection_properties(parser.time_series_references,
                                           parser.component_cache, system.memberships,
                                           parser.collection_properties_cache)
     IN /\ system' = [system EXCEPT !.collection_properties = done.records]
        /\ parser' = [parser EXCEPT !.time_series_references = done.refs]
  /\ op' = "add_collection_properties"
  /\ UNCHANGED <<calls, inputs, pending, passes, attempt, tried>>
  /\ UNCHANGED overlayVars

NextMemberships ==
  \/ AddMemberships
  \/ AddCollectionProperties

SpecMemberships == InitMemberships /\ [][NextMemberships]_vars

\* ====================================================================
\* Claims checked under SpecMemberships
\* ====================================================================
\* C14: collection properties are scoped by membership. Every row stored
\* in a collection-properties record is a row the database holds under the
\* membership the record is tied to, a membership of the row's parent and
\* collection; so rows of different memberships are never in one record, and
\* no group is tied to a membership of another parent or collection.
C14_ScopedByMembership ==
  \A n \in 1..Len(system.collection_properties) :
    LET rec == system.collection_properties[n]
    IN \A i \in 1..Len(rec.rows) :
         /\ rec.rows[i].membership = rec.membership.membership_id
         /\ rec.rows[i].parent_id = rec.membership.parent_object

\* ====================================================================
\* SpecBuild: build_system_components creates a component from the rows the
\* reader delivers for one object
\* ====================================================================
\* a row of db.iterate_properties() of a property of the object itself
MainRow(property, value, scenario, datafile_name, variable_name) ==
  [parent_class |-> "System", property |-> property, value |-> value,
   scenario |-> scenario, band |-> 1, timeslice |-> NoneStr, time_slice |-> NoneStr,
   date_from |-> NoDate, date_to |-> NoDate, datafile_name |-> datafile_name,
   variable_name |-> variable_name, variable |-> NoneStr, text |-> NoneStr,
   action |-> "=", units |-> NoneStr]

\* get_field_name_by_alias(component, prop_name): the field whose alias is
\* the property's display name, None when the model has no such field
get_field_name_by_alias(prop_name) ==
  CASE prop_name = "Max Capacity" -> "max_capacity"
    [] prop_name = "Load Risk" -> "load_risk"
    [] OTHER -> NoneStr

\* isinstance(component, (PLEXOSDatafile, PLEXOSVariable, PLEXOSTimeslice))
IsReferenceSource(child_class) == child_class \in {"Datafile", "Variable", "Timeslice"}

\* row.datafile_name or (row.text if row.text.lower().endswith(".csv") else None)
DatafileNameOf(row) ==
  IF TruthyStr(row.datafile_name) THEN row.datafile_name
  ELSE IF IsCsv(row.text) THEN row.text ELSE NoneStr

\* _register_time_series_reference(component, field_name, property)
register_time_series_reference(refs, component, field_name, property) ==
  IF has_datafile(property)
  THEN LET named == {i \in 1..Len(property.entries) :
                       TruthyStr(DatafileNameOf(property.entries[i].row))}
       IN IF named = {} THEN refs
          ELSE LET first == CHOOSE i \in named : \A j \in named : i <= j
                   name == DatafileNameOf(property.entries[first].row)
               IN IF IsCsv(name)
                  THEN Append(refs, TimeSeriesReference(component, field_name,
                                      "DIRECT_DATAFILE", name, NoneStr, NoneStr,
                                      FALSE, NoMembership))
                  ELSE Append(refs, TimeSeriesReference(component, field_name,
                                      "DATAFILE_COMPONENT", NoneStr, name, NoneStr,
                                      FALSE, NoMembership))
  ELSE IF has_variable(property)
  THEN Append(refs, TimeSeriesReference(component, field_name, "VARIABLE", NoneStr,
                                        NoneStr, FirstVariable(property),
                                        FALSE, NoMembership))
  ELSE refs

\* _process_component_properties(component, db_rows): one turn per group of
\* itertools.groupby, a group being a run of consecutive rows of one property
RECURSIVE process_component_properties(_, _, _, _)
process_component_properties(st, component, child_class, db_rows) ==
  IF db_rows = <<>> THEN st
  ELSE LET prop_name == Head(db_rows).property
           n == CHOOSE k \in 1..Len(db_rows) :
                  /\ \A i \in 1..k : db_rows[i].property = prop_name
                  /\ k = Len(db_rows) \/ db_rows[k + 1].property # prop_name
           prop_records == SubSeq(db_rows, 1, n)
           field_name == get_field_name_by_alias(prop_name)
           property_value == from_records(prop_records, NoneStr)
           registers == /\ ~IsReferenceSource(child_class)
                        /\ has_datafile(property_value) \/ has_variable(property_value)
           turned ==
             IF field_name = NoneStr THEN st
             ELSE [fields |-> [f \in DOMAIN st.fields \cup {field_name} |->
                                 IF f = field_name THEN property_value ELSE st.fields[f]],
                   refs |-> IF registers
                            THEN register_time_series_reference(st.refs, component,
                                                                field_name, property_value)
                            ELSE st.refs]
       IN process_component_properties(turned, component, child_class,
                                       SubSeq(db_rows, n + 1, Len(db_rows)))

\* number of rows the reader delivers for the object
MaxRows == 3

\* the rows the reader can deliver for the object c1
MainRows ==
  { MainRow("Max Capacity", 1, NoneStr, NoneStr, NoneStr),
    MainRow("Max Capacity", 2, "s1", NoneStr, "v1"),
    MainRow("Max Capacity", 3, "s2", "a.csv", NoneStr),
    MainRow("Max Capacity", 4, "s2", "DF", NoneStr),
    MainRow("Load Risk", 5, NoneStr, NoneStr, NoneStr),
    MainRow("Load Risk", 6, "s1", NoneStr, "v1"),
    MainRow("Heat Rate", 7, NoneStr, NoneStr, NoneStr) }
ChildClasses == {"Generator", "Variable"}

InitBuild ==
  /\ prop = EmptyOverlay
  /\ written = <<>>
  /\ rebuilt = EmptyOverlay
  /\ scopes = <<>>
  /\ entered = <<>>
  /\ left = <<>>
  /\ scenario_priority = NoPriority
  /\ horizon = NoHorizon
  /\ hashSeed = 0
  /\ op = "init"
  /\ ret = ResNone
  /\ inputs \in { [child_class |-> c, rows |-> q] :
                    c \in ChildClasses,
                    q \in UNION { [1..k -> MainRows] : k \in 1..MaxRows } }
  /\ parser = [time_series_references |-> <<>>, component_cache |-> {}]
  /\ system = [fields |-> [f \in {} |-> EmptyOverlay]]
  /\ calls = [lookups |-> 0, parses |-> 0]
  /\ pending = <<>>
  /\ passes = 0
  /\ attempt = <<>>
  /\ tried = <<>>

\* component = self._create_component(obj_type, rows_list);
\* self.system.add_component(component)
CreateComponent ==
  /\ op = "init"
  /\ LET done == process_component_properties(
                   [fields |-> system.fields, refs |-> parser.time_series_references],
                   "c1", inputs.child_class, inputs.rows)
     IN /\ system' = [system EXCEPT !.fields = done.fields]
        /\ parser' = [parser EXCEPT !.time_series_references = done.refs,
                                    !.component_cache = @ \cup {"c1"}]
  /\ op' = "create_component"
  /\ UNCHANGED <<calls, inputs, pending, passes, attempt, tried>>
  /\ UNCHANGED overlayVars

NextBuild == CreateComponent

SpecBuild == InitBuild /\ [][NextBuild]_vars

\* ====================================================================
\* Claims checked under SpecBuild
\* ====================================================================
\* the fields the delivered rows have properties for
FieldsDelivered ==
  {get_field_name_by_alias(inputs.rows[i].property) : i \in 1..Len(inputs.rows)}
    \ {NoneStr}
\* the delivered rows of a field, in the order delivered
RowsOfField(f) ==
  SelectSeq(inputs.rows, LAMBDA row : get_field_name_by_alias(row.property) = f)
\* the registered references of a field
RefsOfField(f) ==
  SelectSeq(parser.time_series_references, LAMBDA ref : ref.field_name = f)

\* the source type the rows of a field call for: that of the first row with
\* a datafile, else that of a variable, else none
ExpectedSourceType(f) ==
  LET rows == RowsOfField(f)
      filed == {i \in 1..Len(rows) : TruthyStr(rows[i].datafile_name)}
  IN IF filed # {}
     THEN IF IsCsv(rows[CHOOSE i \in filed : \A j \in filed : i <= j].datafile_name)
          THEN "DIRECT_DATAFILE" ELSE "DATAFILE_COMPONENT"
     ELSE IF \E i \in 1..Len(rows) : TruthyStr(rows[i].variable_name)
     THEN "VARIABLE"
     ELSE NoneStr

\* C22: during component construction, every property of a component (other
\* than Datafile, Variable and Timeslice components) whose database rows carry
\* a datafile reference or a variable reference yields exactly one registered
\* TimeSeriesReference for that (component, field): direct-datafile when the
\* datafile name ends in .csv, datafile-component for any other datafile name,
\* variable when only a variable is referenced; a property without any
\* external reference yields none.
C22_OneReferencePerProperty ==
  (op = "create_component" /\ ~IsReferenceSource(inputs.child_class)) =>
    \A f \in FieldsDelivered :
      IF ExpectedSourceType(f) = NoneStr THEN RefsOfField(f) = <<>>
      ELSE /\ Len(RefsOfField(f)) = 1
           /\ RefsOfField(f)[1].source_type = ExpectedSourceType(f)

\* the keys the delivered rows of a field have between them
KeysOfRows(f) ==
  {AddEntryKey(FromRecordArgs(RowsOfField(f)[i], NoneStr)) : i \in 1..Len(RowsOfField(f))}

\* C30: building a component's properties is independent of row order. For
\* every property of the object, the overlay finally stored on the component
\* holds one entry per distinct key among all database rows of that property,
\* whether or not the rows of that property are adjacent in the sequence the
\* reader delivers, and at most one time-series reference is registered for
\* that (component, field).
C30_RowOrderIndependent ==
  op = "create_component" =>
    \A f \in FieldsDelivered :
      /\ f \in DOMAIN system.fields
      /\ Keys(system.fields[f].entries) = KeysOfRows(f)
      /\ Len(RefsOfField(f)) <= 1

\* ====================================================================
\* SpecTasks: two tasks of one process, each running
\*   with scenario_priority(p): ... prop.get_value() ...
\* over the module-level context, their steps interleaved in any order
\* ====================================================================
Tasks == {"A", "B"}
\* the overlay the tasks resolve: one value per scenario
TasksOverlay ==
  add_entry(add_entry(EmptyOverlay,
                      [AddEntryDefaults EXCEPT !.value = 1, !.scenario = "s1"]),
            [AddEntryDefaults EXCEPT !.value = 2, !.scenario = "s2"])
OpenTasks == {entered[i].task : i \in 1..Len(entered)}
LeftTasks == {left[i].task : i \in 1..Len(left)}
ScopeIndexOf(t) == CHOOSE i \in 1..Len(entered) : entered[i].task = t
RemoveAt(s, i) == SubSeq(s, 1, i - 1) \o SubSeq(s, i + 1, Len(s))

InitTasks ==
  /\ prop = TasksOverlay
  /\ written = <<>>
  /\ rebuilt = EmptyOverlay
  /\ scopes = <<>>
  /\ entered = <<>>
  /\ left = <<>>
  /\ scenario_priority \in Priorities
  /\ horizon = NoHorizon
  /\ hashSeed = 0
  /\ op = "init"
  /\ ret = ResNone
  /\ InitParser
  /\ inputs = DefaultWorld

\* task t reaches `with scenario_priority(p):`
TaskEnter(t) ==
  /\ t \notin OpenTasks \cup LeftTasks
  /\ \E p \in ScopePriorities :
       LET e == EnterScope("scenario_priority", p, horizon, scenario_priority, horizon)
       IN /\ scopes' = Append(scopes, e.scope)
          /\ scenario_priority' = e.priority
          /\ horizon' = e.horizon
          /\ entered' = Append(entered,
               [task |-> t, supplied_p |-> p, entry_p |-> scenario_priority,
                open_at_entry |-> OpenTasks])
  /\ op' = "enter"
  /\ UNCHANGED <<prop, written, rebuilt, left, hashSeed, ret>>
  /\ UNCHANGED parserVars

\* task t, inside its scope, calls prop.get_value()
TaskResolve(t) ==
  /\ t \in OpenTasks
  /\ LET r == get_value(prop, scenario_priority, horizon)
     IN prop' = r.after /\ ret' = r.ret
  /\ attempt' = <<[task |-> t, priority |-> scenario_priority, open |-> OpenTasks]>>
  /\ op' = "get_value"
  /\ UNCHANGED <<written, rebuilt, scopes, entered, left, scenario_priority, horizon, hashSeed>>
  /\ UNCHANGED <<parser, system, calls, inputs, pending, passes, tried>>

\* the body of task t's scope ends, by return or by exception
TaskExit(t) ==
  /\ t \in OpenTasks
  /\ \E exc \in BOOLEAN :
       /\ LET x == ExitScope(scopes[ScopeIndexOf(t)], exc, scenario_priority, horizon)
          IN /\ scenario_priority' = x.priority
             /\ horizon' = x.horizon
       /\ op' = IF exc THEN "raise" ELSE "exit"
  /\ scopes' = RemoveAt(scopes, ScopeIndexOf(t))
  /\ entered' = RemoveAt(entered, ScopeIndexOf(t))
  /\ left' = Append(left, entered[ScopeIndexOf(t)])
  /\ UNCHANGED <<prop, written, rebuilt, hashSeed, ret>>
  /\ UNCHANGED parserVars

NextTasks ==
  \/ \E t \in Tasks : TaskEnter(t)
  \/ \E t \in Tasks : TaskResolve(t)
  \/ \E t \in Tasks : TaskExit(t)

SpecTasks == InitTasks /\ [][NextTasks]_vars

\* ------------------------------------------------ claims under SpecTasks
\* the first task has left its scope while the second, which entered while
\* the first was open, is still inside its own
FirstLeftSecondOpen ==
  /\ Len(left) = 1 /\ Len(entered) = 1
  /\ left[1].task \in entered[1].open_at_entry
\* both have left, in the order they entered
BothLeftInEntryOrder ==
  /\ Len(left) = 2
  /\ left[1].task \in left[2].open_at_entry

\* C25: the ambient context gives no isolation between concurrent users. When
\* the scenario_priority scopes of two tasks interleave without nesting (A
\* enters, B enters, A exits, B exits): after A's exit the ambient priority is
\* the value from before A entered, so B, still inside its scope, resolves
\* under that value and not under the map B set; and after B's exit the
\* ambient priority is the map A set, not the value before either was entered.
C25_NoIsolation ==
  /\ FirstLeftSecondOpen =>
       /\ scenario_priority = left[1].entry_p
       /\ op = "get_value" =>
            /\ attempt[1].task = entered[1].task
            /\ ret = get_value(prop, left[1].entry_p, horizon).ret
  /\ BothLeftInEntryOrder => scenario_priority = left[1].supplied_p

\* C25 witness: A entered, B entered, A left, B resolved while the ambient
\* priority was not B's map (and got another value than under its map), B left,
\* and the ambient priority is not what it was before either entered
C25_Witness ==
  /\ BothLeftInEntryOrder
  /\ left[1].task = "A" /\ left[2].task = "B"
  /\ attempt # <<>>
  /\ attempt[1].task = "B" /\ attempt[1].open = {"B"}
  /\ attempt[1].priority # left[2].supplied_p
  /\ ret # get_value(prop, left[2].supplied_p, horizon).ret
  /\ scenario_priority # left[1].entry_p

\* ====================================================================
\* SpecRuns: successive parser runs in one process, each a new PLEXOSParser
\* over a model of its own: validate_inputs, then build_time_series
\* ====================================================================
MaxRuns == 2
\* config.horizon_year is None
NoYear == -1
\* resolve_horizon_for_model(db, model_name): None, or (start, end) with the
\* year of start
NoModelHorizon == [isNone |-> TRUE, year |-> NoYear, from |-> NoDate, to |-> NoDate]
ModelHorizon(year, f, t) == [isNone |-> FALSE, year |-> year, from |-> f, to |-> t]
\* read_order or 0
NoOrder == NoId
OrZero(read_order) == IF read_order = NoOrder THEN 0 ELSE read_order

\* horizon_start.year < self.config.horizon_year - 5, when a year is configured
HorizonRejected(config, horizon_range) ==
  config.horizon_year # NoYear /\ horizon_range.year < config.horizon_year - 5

\* [self |-> the parser, priority, horizon |-> the ambient context] when
\* validate_inputs returns
validate_inputs(self, cur_horizon) ==
  LET priority_map == [s \in DOMAIN self.model.scenario_results |->
                         OrZero(self.model.scenario_results[s])]
      horizon_range == self.model.horizon_range
      accepted == ~horizon_range.isNone /\ ~HorizonRejected(self.config, horizon_range)
  IN [self |-> IF accepted THEN [self EXCEPT !.horizon_attrs = horizon_range] ELSE self,
      priority |-> SomePriority(priority_map),
      horizon |-> IF accepted THEN SomeHorizon(horizon_range.from, horizon_range.to)
                  ELSE cur_horizon]

\* the models of the database and the configurations of a run
RunModels ==
  { [scenario_results |-> q, horizon_range |-> r] :
      q \in {("s1" :> 1 @@ "s2" :> 2), ("s2" :> NoOrder)},
      r \in {NoModelHorizon, ModelHorizon(2020, 2, 3), ModelHorizon(2010, 4, 4)} }
RunConfigs == {[horizon_year |-> y] : y \in {NoYear, 2020}}

InitRuns ==
  /\ prop = EmptyOverlay
  /\ written = <<>>
  /\ rebuilt = EmptyOverlay
  /\ scopes = <<>>
  /\ entered = <<>>
  /\ left = <<>>
  /\ scenario_priority = NoPriority
  /\ horizon = NoHorizon
  /\ hashSeed = 0
  /\ op = "init"
  /\ ret = ResNone
  /\ inputs = DefaultWorld
  /\ parser = [config |-> [horizon_year |-> NoYear],
               model |-> [scenario_results |-> ("s2" :> NoOrder),
                          horizon_range |-> NoModelHorizon],
               horizon_attrs |-> NoModelHorizon,
               time_series_references |-> <<>>]
  /\ system = InitialSystem
  /\ calls = [lookups |-> 0, parses |-> 0]
  /\ pending = <<>>
  /\ passes = 0
  /\ attempt = <<>>
  /\ tried = <<>>

\* parser = PLEXOSParser(config, ...): no _horizon_start, no references yet
NewParser ==
  /\ op \in {"init", "build_time_series"}
  /\ passes < MaxRuns
  /\ \E model \in RunModels, config \in RunConfigs :
       parser' = [config |-> config, model |-> model,
                  horizon_attrs |-> NoModelHorizon,
                  time_series_references |-> <<>>]
  /\ passes' = passes + 1
  /\ op' = "new_parser"
  /\ UNCHANGED <<system, calls, inputs, pending, attempt, tried>>
  /\ UNCHANGED overlayVars

\* parser.validate_inputs()
ValidateInputs ==
  /\ op = "new_parser"
  /\ LET v == validate_inputs(parser, horizon)
     IN /\ parser' = v.self
        /\ scenario_priority' = v.priority
        /\ horizon' = v.horizon
  /\ op' = "validate_inputs"
  /\ UNCHANGED <<system, calls, inputs, pending, passes, attempt, tried>>
  /\ UNCHANGED <<prop, written, rebuilt, scopes, entered, left, hashSeed, ret>>

\* parser.build_time_series() of a model without references: horizon =
\* get_horizon(); horizon_datetime = (_horizon_start, _horizon_end) if set
BuildWithoutReferences ==
  /\ op = "validate_inputs"
  /\ attempt' = <<[horizon |-> horizon, horizon_datetime |-> parser.horizon_attrs]>>
  /\ op' = "build_time_series"
  /\ UNCHANGED <<parser, system, calls, inputs, pending, passes, tried>>
  /\ UNCHANGED overlayVars

NextRuns == NewParser \/ ValidateInputs \/ BuildWithoutReferences

SpecRuns == InitRuns /\ [][NextRuns]_vars

\* ------------------------------------------------- claims under SpecRuns
\* the horizon of this run's model: its range, or none when the model has
\* none or it lies more than 5 years before horizon_year
HorizonOfThisRun ==
  IF parser.model.horizon_range.isNone
     \/ HorizonRejected(parser.config, parser.model.horizon_range)
  THEN NoHorizon
  ELSE SomeHorizon(parser.model.horizon_range.from, parser.model.horizon_range.to)

\* C27: the ambient context used by a parser run reflects only that run's
\* model: after validate_inputs the ambient horizon is this model's horizon
\* or, when the model has no horizon or its horizon is rejected as more than 5
\* years before horizon_year, unset; build_time_series therefore never reads
\* a horizon left behind by an earlier parser run in the same process.
C27_ContextOfThisRun ==
  /\ op = "validate_inputs" => horizon = HorizonOfThisRun
  /\ op = "build_time_series" => attempt[1].horizon = HorizonOfThisRun

====
